---- MODULE Spec2Model ----
(***************************************************************************)
(* Model of the download orchestration client (Downloader/http.py,        *)
(* Aria2Client) and of the concurrent fetch client (AioHttpClient) of      *)
(* Xownbot.                                                                *)
(*                                                                         *)
(* Spec      : one call of Aria2Client.with_download_many / with_download  *)
(*             against an aria2 daemon whose jobs change state on their    *)
(*             own while the call polls them.                              *)
(* SpecFetch : one call of AioHttpClient.get_many / head_many, consumed    *)
(*             by an `async for` loop of the caller.                       *)
(* SpecCache : successive calls of Downloader.make_ready on Downloader     *)
(*             objects that share the pickle cache directory.              *)
(* SpecExtract : one call of BaseExtractor.extract on an extractor of one  *)
(*             of the site classes.                                        *)
(* SpecMedia : successive make_ready / download calls on one Media object  *)
(*             of Downloader/media.py or of Downloader/types.py.           *)
(* SpecHls   : one size estimate of M3U8Media over a manifest of segments. *)
(* SpecDownload : one call of Media.download, from the scratch directory   *)
(*             to its removal, with the daemon accepting and finishing the *)
(*             jobs in any order.                                          *)
(* SpecUpload : one call of TeleDriveClient.upload, the chunk uploads of   *)
(*             its gather interleaved in every way.                        *)
(* SpecRegistry : one call of get_extractor_cls on a url.                   *)
(* SpecEarlier : one call of with_download_many of the earlier client       *)
(*             (Download/http.py).                                         *)
(***************************************************************************)
EXTENDS Integers, Sequences, FiniteSets, TLC

\* ------------------------------------------------------------------ bounds
MaxUrls == 2        \* longest list of URLs handed to one call
MaxPolls == 2       \* polls of await_complete that are explored
MaxBatch == 3       \* longest list of URLs handed to get_many / head_many
MaxCalls == 2       \* calls of Downloader.make_ready that are explored
MaxMedia == 2       \* longest src_video list an extraction produces
MaxOps == 2         \* make_ready / download calls on one Media that are explored
MaxSegments == 11   \* longest HLS manifest, in segments
MaxParts == 3       \* longest list of segment urls one download submits
MaxChunks == 5      \* most chunks of an uploaded file
MaxLabels == 3      \* most labels of the host of a url

\* Settings.TD_THROTTLING, a setting of the deployment
TD_THROTTLING == 2

\* M3U8Media.SIZE_ESTIMATE_SAMPLE
SIZE_ESTIMATE_SAMPLE == 10

\* the values a daemon reports (aria2: errorCode, totalLength)
ErrorCodes == {1, 3}
Lengths == {2}
\* the URLs a batch is drawn from
BatchUrls == {"a", "b"}

NoError == [error_code |-> 0, error_msg |-> 0]
NoArgs == <<-1, -1>>

VARIABLES
    \* ---- the call's arguments
    api,            \* "with_download" | "with_download_many"
    urls,           \* the URLs submitted, a sequence
    update_fn,      \* TRUE when the caller passed a progress callback
    cb_use_length,  \* length-based (TRUE) or count-based progress
    \* ---- the aria2 daemon
    jobs,           \* gid -> the job's record, for every job the daemon created
    forceRemoved,   \* gid -> number of forceRemove requests the daemon received
    \* ---- the call
    pc,             \* where the call stands
    added,          \* index of urls -> gid returned by addUri (0: not yet)
    download_list,  \* the gids, in the order of urls, once download_many returned
    stat,           \* statuses returned by the last poll of await_complete
    polls,          \* polls (rounds of status queries) made by await_complete
    sleeps,         \* sleep(1) calls made by await_complete
    cbCalls,        \* invocations of the caller's progress function
    cbArgs,         \* (total, completed) of its last invocation
    awaitExit,      \* how await_complete ended
    raised,         \* the DownloaderError raised, if any
    removeDone,     \* how many tasks of the finally block's list were issued
    outcome,        \* how the context manager ended
    \* ---- AioHttpClient._call_many_async
    f_urls,         \* the URLs of the batch
    f_pc,           \* where the generator stands
    req,            \* index -> state of that request's task
    done_queue,     \* indices of finished tasks, in completion order
    yielded,        \* the (index, response) pairs handed to the caller
    session_closed, \* TRUE once the pooled session was closed
    \* ---- Downloader.make_ready
    cache,          \* md_hash -> the pickled attributes, for every cache file
    downloaders,    \* the Downloader objects, by number
    mr,             \* the make_ready call in progress
    mr_log,         \* the calls of make_ready that ended, in order
    \* ---- BaseExtractor.extract
    ex_cls,         \* the extractor's class
    ex_pc,          \* where extract stands
    ex_context,     \* self._context
    ex_trace,       \* the stage methods called so far, in order
    ex_attrs,       \* title, metadata, src_image, src_video, ready
    ex_made,        \* Media of src_image + src_video that make_ready returned for
    \* ---- BaseMedia.make_ready / download
    md,             \* the Media object
    md_call,        \* the call in progress
    md_log,         \* the calls that ended, in order
    md_submitted,   \* the downloads handed to the daemon, in order
    \* ---- M3U8Media: the size estimate
    hls_src_list,   \* the segments of the manifest: duration, content length
    hls_pc,         \* where the estimate stands
    hls_samples,    \* samples: positions of src_list, in the order of the list
    hls_heads,      \* urls handed to head_many, as positions of src_list
    hls_size,       \* the list size: index tag of a response -> the rate appended
    hls_result,     \* the size returned
    \* ---- Download
    dn_media,       \* the Media whose download runs: its class and its url(s)
    dn_pc,          \* position of Media.download
    dn_jobs,        \* daemon jobs of the call, gid = position in accept order
    dn_list,        \* download_list, then dl_files: what the context manager yields
    dn_files,       \* the files of the scratch directory
    dn_dir,         \* the scratch directory: "none", "exists" or "deleted"
    dn_save,        \* the content at save_path, a sequence of segment contents
    dn_exc,         \* the exception travelling out of download, or "none"
    dn_log,         \* the steps download has done after submission, in order
    \* ---- Upload
    up_total,       \* params["total_part"]: the number of chunks of the file
    up_pc,          \* position of TeleDriveClient.upload
    up_chunks,      \* part_no -> position of its __upload_chunk and its headers_backup
    up_sem,         \* the value of the semaphore sem
    up_headers,     \* client._default_headers: the names of the default headers
    \* ---- Registry
    rg_url,         \* the url handed to get_extractor_cls
    rg_out,         \* what get_extractor_cls did: the class returned or the exception raised
    \* ---- Earlier
    od_urls,        \* the number of urls handed to with_download_many
    od_pc,          \* position of with_download_many of Download/http.py
    od_jobs,        \* gid -> status of the job in the daemon, gids in submission order
    od_removed,     \* the gids session.remove was called for
    od_polls        \* the polls of _await_complete that called update_fn

ariaVars == <<api, urls, update_fn, cb_use_length, jobs, forceRemoved, pc, added,
              download_list, stat, polls, sleeps, cbCalls, cbArgs, awaitExit,
              raised, removeDone, outcome>>
fetchVars == <<f_urls, f_pc, req, done_queue, yielded, session_closed>>
cacheVars == <<cache, downloaders, mr, mr_log>>
extractVars == <<ex_cls, ex_pc, ex_context, ex_trace, ex_attrs, ex_made>>
mediaVars == <<md, md_call, md_log, md_submitted>>
hlsVars == <<hls_src_list, hls_pc, hls_samples, hls_heads, hls_size, hls_result>>
dnVars == <<dn_media, dn_pc, dn_jobs, dn_list, dn_files, dn_dir, dn_save, dn_exc, dn_log>>
upVars == <<up_total, up_pc, up_chunks, up_sem, up_headers>>
rgVars == <<rg_url, rg_out>>
odVars == <<od_urls, od_pc, od_jobs, od_removed, od_polls>>
vars == <<ariaVars, fetchVars, cacheVars, extractVars, mediaVars, hlsVars, dnVars, upVars, rgVars, odVars>>

\* what the actions of one component leave alone
notAria == <<fetchVars, cacheVars, extractVars, mediaVars, hlsVars, dnVars, upVars, rgVars, odVars>>
notFetch == <<ariaVars, cacheVars, extractVars, mediaVars, hlsVars, dnVars, upVars, rgVars, odVars>>
notCache == <<ariaVars, fetchVars, extractVars, mediaVars, hlsVars, dnVars, upVars, rgVars, odVars>>
notExtract == <<ariaVars, fetchVars, cacheVars, mediaVars, hlsVars, dnVars, upVars, rgVars, odVars>>
notMedia == <<ariaVars, fetchVars, cacheVars, extractVars, hlsVars, dnVars, upVars, rgVars, odVars>>
notHls == <<ariaVars, fetchVars, cacheVars, extractVars, mediaVars, dnVars, upVars, rgVars, odVars>>
notDownload == <<ariaVars, fetchVars, cacheVars, extractVars, mediaVars, hlsVars, upVars, rgVars, odVars>>
notUpload == <<ariaVars, fetchVars, cacheVars, extractVars, mediaVars, hlsVars, dnVars, rgVars, odVars>>
notRegistry == <<ariaVars, fetchVars, cacheVars, extractVars, mediaVars, hlsVars, dnVars, upVars, odVars>>
notEarlier == <<ariaVars, fetchVars, cacheVars, extractVars, mediaVars, hlsVars, dnVars, upVars, rgVars>>

\* ---------------------------------------------------- Downloader: values
\* the page URLs the Downloader objects are made for
PageUrls == {"a", "b"}
\* md_hash = md5(url.__str__().encode()).hexdigest()
Hash(u) == <<"md5", u>>
\* size as BaseMedia.__init__ leaves it
SizeUnset == -1
\* size after a HEAD response that carried no Content-Length (None)
SizeNone == -2
\* sizes a Media can have once make_ready ran on it
Sizes == {3, 5, SizeNone}

NewDownloader_Ready(u) ==
    [url |-> u, md_hash |-> Hash(u), title |-> "", metadata |-> {},
     src_image |-> <<>>, src_video |-> <<>>, ready |-> TRUE]

NewDownloader(u) ==
    [url |-> u, md_hash |-> Hash(u), title |-> "", metadata |-> {},
     src_image |-> <<>>, src_video |-> <<>>, ready |-> FALSE]

\* what an extractor holds when nothing was extracted
NoPage == [title |-> "untitled", metadata |-> {}, src_image |-> <<>>, src_video |-> <<>>]

NoCall == [obj |-> 0, use_cache |-> FALSE, pc |-> "idle", had_file |-> FALSE,
           ran |-> FALSE, http |-> 0, extractor |-> NoPage]

\* the state of the Downloader component while no make_ready is explored
CacheIdle ==
    /\ cache = <<>>
    /\ downloaders = <<>>
    /\ mr = NoCall
    /\ mr_log = <<>>

\* BaseExtractor.__init__
NewExtractor == [title |-> "untitled", metadata |-> "empty", src_image |-> <<>>,
                 src_video |-> <<>>, ready |-> FALSE]

\* BaseMedia.__init__ (media.py) and the field defaults (types.py);
\* M3U8Media presets the extension
NewMediaObject(module, kind) ==
    [module |-> module, kind |-> kind, size |-> SizeUnset,
     extension |-> IF kind = "GenericMedia" THEN ""
                   ELSE IF module = "media" THEN ".mp4" ELSE ".ts",
     ready |-> FALSE, ctx |-> <<>>]

NoMediaCall == [op |-> "none", pc |-> "idle", k |-> 0, heads |-> 0, ran_make_ready |-> FALSE]

\* the state of the Media component while no Media is explored
MediaIdle ==
    /\ md = NewMediaObject("media", "GenericMedia")
    /\ md_call = NoMediaCall
    /\ md_log = <<>>
    /\ md_submitted = <<>>

\* the state of the download while none is explored
DownloadIdle ==
    /\ dn_media = [kind |-> "GenericMedia", urls |-> <<>>]
    /\ dn_pc = "idle"
    /\ dn_jobs = <<>>
    /\ dn_list = <<>>
    /\ dn_files = {}
    /\ dn_dir = "none"
    /\ dn_save = <<>>
    /\ dn_exc = "none"
    /\ dn_log = <<>>

\* the state of the upload while none is explored
UploadIdle ==
    /\ up_total = 0
    /\ up_pc = "idle"
    /\ up_chunks = <<>>
    /\ up_sem = 0
    /\ up_headers = {}

\* the outcome of get_extractor_cls while it has not been called
NoOutcome == [kind |-> "pending", cls |-> "", url |-> <<>>, supported |-> {}]

\* the state of the site registry while no lookup is explored
RegistryIdle ==
    /\ rg_url = [has_host |-> FALSE, host |-> <<>>]
    /\ rg_out = NoOutcome

\* the state of the earlier client while no call is explored
EarlierIdle ==
    /\ od_urls = 0
    /\ od_pc = "idle"
    /\ od_jobs = <<>>
    /\ od_removed = {}
    /\ od_polls = 0

\* the state of the size estimate while none is explored
HlsIdle ==
    /\ hls_src_list = <<>>
    /\ hls_pc = "idle"
    /\ hls_samples = <<>>
    /\ hls_heads = <<>>
    /\ hls_size = <<>>
    /\ hls_result = SizeUnset

\* the state of the extractor component while no extract is explored
ExtractIdle ==
    /\ ex_cls = "BaseExtractor"
    /\ ex_pc = "idle"
    /\ ex_context = <<>>
    /\ ex_trace = <<>>
    /\ ex_attrs = NewExtractor
    /\ ex_made = 0

\* ----------------------------------------------------------------- helpers
RECURSIVE SumSeq(_)
SumSeq(s) == IF s = <<>> THEN 0 ELSE Head(s) + SumSeq(Tail(s))

Indices(s) == 1..Len(s)

\* ------------------------------------------------------- the aria2 daemon
Live == {"waiting", "active", "paused"}

NewJob(u) ==
    [url |-> u, status |-> "waiting", totalLength |-> 0, completedLength |-> 0,
     errorCode |-> 0, errorMessage |-> 0]

\* the message aria2 attaches to an error: it names the job and the code
ErrorMessage(g, c) == <<g, c>>

\* aria2.addUri: the daemon creates a job and answers with its gid
NextGid == Cardinality(DOMAIN jobs) + 1

\* aria2.tellStatus
TellStatus(g) == jobs[g]

\* aria2.forceRemove: a live job becomes "removed"; for a stopped job the
\* daemon answers with an error (gather(return_exceptions=True) swallows it)
DaemonForceRemove(j) ==
    IF j.status \in Live THEN [j EXCEPT !.status = "removed"] ELSE j

\* one step of a job inside the daemon: it starts (and its length becomes
\* known), completes, fails, or is paused, resumed or removed by another
\* client of the daemon
JobStep(g) ==
    /\ pc \notin {"done"}
    /\ g \in DOMAIN jobs
    /\ LET j == jobs[g] IN
       \/ /\ j.status = "waiting"
          /\ \E l \in Lengths :
                jobs' = [jobs EXCEPT ![g] = [j EXCEPT !.status = "active",
                                                       !.totalLength = l]]
       \/ /\ j.status = "active"
          /\ jobs' = [jobs EXCEPT ![g] = [j EXCEPT !.status = "complete",
                                                    !.completedLength = j.totalLength]]
       \/ /\ j.status = "active"
          /\ \E c \in ErrorCodes :
                jobs' = [jobs EXCEPT ![g] = [j EXCEPT !.status = "error",
                                                       !.errorCode = c,
                                                       !.errorMessage = ErrorMessage(g, c)]]
       \/ /\ j.status = "active"
          /\ jobs' = [jobs EXCEPT ![g].status = "paused"]
       \/ /\ j.status = "paused"
          /\ jobs' = [jobs EXCEPT ![g].status = "active"]
       \/ /\ j.status \in Live
          /\ jobs' = [jobs EXCEPT ![g].status = "removed"]
    /\ UNCHANGED <<api, urls, update_fn, cb_use_length, forceRemoved, pc, added,
                   download_list, stat, polls, sleeps, cbCalls, cbArgs, awaitExit,
                   raised, removeDone, outcome>>
    /\ UNCHANGED notAria

\* ------------------------------------------------------------ Aria2Client
\* DownloaderError(error_code, error_msg)
DownloaderError(code, msg) == [error_code |-> code, error_msg |-> msg]

\* Aria2Client.status(gids, keys): one tellStatus per gid, gathered in order
Status(gids) == [k \in Indices(gids) |-> TellStatus(gids[k])]

StatusOf(gids) == [k \in Indices(gids) |-> TellStatus(gids[k]).status]

\* await_complete: the loop over enumerate(stat)
\* c_ of the first job found in error (0: none)
ErrorIndex(s) ==
    IF \E k \in Indices(s) : s[k] = "error"
    THEN CHOOSE k \in Indices(s) :
            /\ s[k] = "error"
            /\ \A m \in 1..(k - 1) : s[m] # "error"
    ELSE 0

\* err_ = (await self.status((gids[c_],), ["errorCode", "errorMessage"]))[0]
ErrorDetail_AllGids(gids, c) == Status(gids)[1]

ErrorDetail(gids, c) == Status(<<gids[c]>>)[1]

\* is_complete after the loop
is_complete_NotRunning(s) == \A k \in Indices(s) : s[k] \notin {"active", "waiting"}

is_complete(s) == \A k \in Indices(s) : s[k] = "complete"

\* what await_complete does with the statuses of one poll
AfterPoll_WaitsForSiblings(s, cb) ==
    IF ErrorIndex(s) # 0 /\ \A k \in Indices(s) : s[k] \notin Live THEN "errfetch"
    ELSE IF is_complete(s) THEN "return"
    ELSE IF cb THEN "callback"
    ELSE "sleep"

AfterPoll(s, cb) ==
    IF ErrorIndex(s) # 0 THEN "errfetch"
    ELSE IF is_complete(s) THEN "return"
    ELSE IF cb THEN "callback"
    ELSE "sleep"

\* callback_factory._fn: the (total, completed) handed to the caller's function
ProgressArgs_CountOnly(use_length, gids, statuses) ==
    <<Len(gids),
      SumSeq([k \in Indices(statuses) |->
                 IF statuses[k].status = "complete" THEN 1 ELSE 0])>>

ProgressArgs(use_length, gids, statuses) ==
    IF use_length
    THEN <<SumSeq([k \in Indices(statuses) |-> statuses[k].totalLength]),
           SumSeq([k \in Indices(statuses) |-> statuses[k].completedLength])>>
    ELSE <<Len(gids),
           SumSeq([k \in Indices(statuses) |->
                      IF statuses[k].status = "complete" THEN 1 ELSE 0])>>

\* with_download_many: try ... finally; where control goes when the try body
\* is left, normally or by an exception
AfterTry_OnlyOnSuccess(exc) == IF exc = "ok" THEN "finally" ELSE "done"

AfterTry(exc) == "finally"

\* the finally block's task list: one forceRemove per gid of download_list
RemoveTasks(dl) == dl

\* the state of the fetch client while no batch runs
FetchIdle ==
    /\ f_urls = <<>>
    /\ f_pc = "idle"
    /\ req = <<>>
    /\ done_queue = <<>>
    /\ yielded = <<>>
    /\ session_closed = FALSE

Init ==
    /\ api \in {"with_download", "with_download_many"}
    /\ \E n \in 0..MaxUrls :
          /\ api = "with_download" => n = 1
          /\ urls = [k \in 1..n |-> k]
          /\ added = [k \in 1..n |-> 0]
    /\ update_fn \in BOOLEAN
    /\ cb_use_length \in BOOLEAN
    /\ jobs = <<>>
    /\ forceRemoved = <<>>
    /\ pc = "add"
    /\ download_list = <<>>
    /\ stat = <<>>
    /\ polls = 0
    /\ sleeps = 0
    /\ cbCalls = 0
    /\ cbArgs = NoArgs
    /\ awaitExit = "none"
    /\ raised = NoError
    /\ removeDone = 0
    /\ outcome = "none"
    /\ FetchIdle
    /\ CacheIdle
    /\ ExtractIdle
    /\ MediaIdle
    /\ HlsIdle
    /\ DownloadIdle
    /\ UploadIdle
    /\ RegistryIdle
    /\ EarlierIdle

\* _add_downloads: gather(*[_download(u_, sess_) ...], return_exceptions=False);
\* gather starts the addUri requests in list order; the daemon is taken to
\* serve them in that order
AddUri(k) ==
    /\ pc = "add"
    /\ k \in Indices(urls)
    /\ added[k] = 0
    /\ \A m \in 1..(k - 1) : added[m] # 0
    /\ LET g == NextGid IN
          /\ jobs' = jobs @@ (g :> NewJob(urls[k]))
          /\ forceRemoved' = forceRemoved @@ (g :> 0)
          /\ added' = [added EXCEPT ![k] = g]
    /\ UNCHANGED <<api, urls, update_fn, cb_use_length, pc, download_list, stat,
                   polls, sleeps, cbCalls, cbArgs, awaitExit, raised, removeDone,
                   outcome>>
    /\ UNCHANGED notAria

\* one addUri fails: gather re-raises, download_many raises, and
\* with_download_many raises before it reaches its try block
AddFails(k) ==
    /\ pc = "add"
    /\ k \in Indices(urls)
    /\ added[k] = 0
    /\ \A m \in 1..(k - 1) : added[m] # 0
    /\ pc' = "done"
    /\ outcome' = "AddError"
    /\ UNCHANGED <<api, urls, update_fn, cb_use_length, jobs, forceRemoved, added,
                   download_list, stat, polls, sleeps, cbCalls, cbArgs, awaitExit,
                   raised, removeDone>>
    /\ UNCHANGED notAria

\* the enclosing task is cancelled while download_many awaits the daemon
CancelAdd ==
    /\ pc = "add"
    /\ pc' = "done"
    /\ outcome' = "AddCancelled"
    /\ UNCHANGED <<api, urls, update_fn, cb_use_length, jobs, forceRemoved, added,
                   download_list, stat, polls, sleeps, cbCalls, cbArgs, awaitExit,
                   raised, removeDone>>
    /\ UNCHANGED notAria

\* download_many returns the gids in the order of urls; with_download_many
\* builds the callback and enters the try block
AddDone ==
    /\ pc = "add"
    /\ \A k \in Indices(urls) : added[k] # 0
    /\ download_list' = added
    /\ pc' = "poll"
    /\ UNCHANGED <<api, urls, update_fn, cb_use_length, jobs, forceRemoved, added,
                   stat, polls, sleeps, cbCalls, cbArgs, awaitExit, raised,
                   removeDone, outcome>>
    /\ UNCHANGED notAria

\* leaving the try block of with_download_many
LeaveTry(how) ==
    /\ outcome' = how
    /\ pc' = IF AfterTry(how) = "finally" THEN "finally" ELSE "done"

\* await_complete: stat = await self.status(gids, ["status"]) and the loop
\* over it, up to the next await
Poll ==
    /\ pc = "poll"
    /\ polls < MaxPolls
    /\ polls' = polls + 1
    /\ stat' = StatusOf(download_list)
    /\ LET next == AfterPoll(stat', update_fn) IN
          IF next = "return"
          THEN /\ awaitExit' = "returned"
               /\ pc' = "block"
          ELSE /\ awaitExit' = awaitExit
               /\ pc' = next
    /\ UNCHANGED <<api, urls, update_fn, cb_use_length, jobs, forceRemoved, added,
                   download_list, sleeps, cbCalls, cbArgs, raised, removeDone,
                   outcome>>
    /\ UNCHANGED notAria

\* await_complete: the second status query, for the job found in error, and
\* raise DownloaderError(err_["errorCode"], err_["errorMessage"])
ErrFetch ==
    /\ pc = "errfetch"
    /\ LET err_ == ErrorDetail(download_list, ErrorIndex(stat)) IN
          raised' = DownloaderError(err_.errorCode, err_.errorMessage)
    /\ awaitExit' = "DownloaderError"
    /\ LeaveTry("DownloaderError")
    /\ UNCHANGED <<api, urls, update_fn, cb_use_length, jobs, forceRemoved, added,
                   download_list, stat, polls, sleeps, cbCalls, cbArgs, removeDone>>
    /\ UNCHANGED notAria

\* await_complete: tmp_ = update_fn(gids); await tmp_  -- callback_factory._fn
\* queries the daemon again and calls the caller's function, which may raise
Callback(fnRaises) ==
    /\ pc = "callback"
    /\ cbCalls' = cbCalls + 1
    /\ cbArgs' = ProgressArgs(cb_use_length, download_list, Status(download_list))
    /\ IF fnRaises
       THEN /\ awaitExit' = "CallbackError"
            /\ LeaveTry("CallbackError")
       ELSE /\ pc' = "sleep"
            /\ UNCHANGED <<awaitExit, outcome>>
    /\ UNCHANGED <<api, urls, update_fn, cb_use_length, jobs, forceRemoved, added,
                   download_list, stat, polls, sleeps, raised, removeDone>>
    /\ UNCHANGED notAria

\* await_complete: await sleep(1), then the next iteration
Sleep_GivesUp ==
    /\ pc = "sleep"
    /\ sleeps' = sleeps + 1
    /\ IF sleeps >= 1
       THEN pc' = "block" /\ awaitExit' = "returned"
       ELSE pc' = "poll" /\ awaitExit' = awaitExit
    /\ UNCHANGED <<api, urls, update_fn, cb_use_length, jobs, forceRemoved, added,
                   download_list, stat, polls, cbCalls, cbArgs, raised,
                   removeDone, outcome>>
    /\ UNCHANGED notAria

Sleep ==
    /\ pc = "sleep"
    /\ sleeps' = sleeps + 1
    /\ pc' = "poll"
    /\ UNCHANGED <<api, urls, update_fn, cb_use_length, jobs, forceRemoved, added,
                   download_list, stat, polls, cbCalls, cbArgs, awaitExit, raised,
                   removeDone, outcome>>
    /\ UNCHANGED notAria

\* the enclosing task is cancelled while await_complete is suspended at one
\* of its awaits: CancelledError is thrown there
Cancel ==
    /\ pc \in {"poll", "errfetch", "callback", "sleep"}
    /\ awaitExit' = "Cancelled"
    /\ LeaveTry("Cancelled")
    /\ UNCHANGED <<api, urls, update_fn, cb_use_length, jobs, forceRemoved, added,
                   download_list, stat, polls, sleeps, cbCalls, cbArgs, raised,
                   removeDone>>
    /\ UNCHANGED notAria

\* yield download_list (with_download: dl_[0]): the caller's block runs and
\* finishes or raises
Block(blockRaises) ==
    /\ pc = "block"
    /\ LeaveTry(IF blockRaises THEN "BlockError" ELSE "ok")
    /\ UNCHANGED <<api, urls, update_fn, cb_use_length, jobs, forceRemoved, added,
                   download_list, stat, polls, sleeps, cbCalls, cbArgs, awaitExit,
                   raised, removeDone>>
    /\ UNCHANGED notAria

\* finally: the next forceRemove of the gathered task list is issued (gather
\* starts its tasks in list order) and reaches the daemon
ForceRemove ==
    /\ pc = "finally"
    /\ removeDone < Len(RemoveTasks(download_list))
    /\ LET g == RemoveTasks(download_list)[removeDone + 1] IN
          /\ forceRemoved' = [forceRemoved EXCEPT ![g] = @ + 1]
          /\ jobs' = [jobs EXCEPT ![g] = DaemonForceRemove(@)]
    /\ removeDone' = removeDone + 1
    /\ UNCHANGED <<api, urls, update_fn, cb_use_length, pc, added, download_list,
                   stat, polls, sleeps, cbCalls, cbArgs, awaitExit, raised, outcome>>
    /\ UNCHANGED notAria

\* finally: gather(*tasks, return_exceptions=True) is over, the session is
\* closed and the context manager gives control back
FinallyDone ==
    /\ pc = "finally"
    /\ removeDone = Len(RemoveTasks(download_list))
    /\ pc' = "done"
    /\ UNCHANGED <<api, urls, update_fn, cb_use_length, jobs, forceRemoved, added,
                   download_list, stat, polls, sleeps, cbCalls, cbArgs, awaitExit,
                   raised, removeDone, outcome>>
    /\ UNCHANGED notAria

Next ==
    \/ \E k \in 1..MaxUrls : AddUri(k)
    \/ \E k \in 1..MaxUrls : AddFails(k)
    \/ CancelAdd
    \/ AddDone
    \/ Poll
    \/ ErrFetch
    \/ \E r \in BOOLEAN : Callback(r)
    \/ Sleep
    \/ Cancel
    \/ \E r \in BOOLEAN : Block(r)
    \/ ForceRemove
    \/ FinallyDone
    \/ \E g \in 1..MaxUrls : JobStep(g)

Spec == Init /\ [][Next]_vars

\* ---------------------------------------------------------- AioHttpClient
\* the state of the download client while no download runs
AriaIdle ==
    /\ api = "with_download_many"
    /\ urls = <<>>
    /\ added = <<>>
    /\ update_fn = FALSE
    /\ cb_use_length = FALSE
    /\ jobs = <<>>
    /\ forceRemoved = <<>>
    /\ pc = "idle"
    /\ download_list = <<>>
    /\ stat = <<>>
    /\ polls = 0
    /\ sleeps = 0
    /\ cbCalls = 0
    /\ cbArgs = NoArgs
    /\ awaitExit = "none"
    /\ raised = NoError
    /\ removeDone = 0
    /\ outcome = "none"

\* headers = [headers] * len(urls) for a dict, [None] * len(urls) for None,
\* the caller's list as it is otherwise
HeaderList(h, us) ==
    IF h = "list" THEN [k \in Indices(us) |-> <<"headers", k>>]
    ELSE [k \in Indices(us) |-> h]

\* tasks = [_call(counter=c_, url=u_, headers=h_, ...)
\*          for c_, (u_, h_) in enumerate(zip(urls, headers))]
Tasks_LateBinding(us, hs) ==
    [k \in Indices(us) |-> [counter |-> Len(us) - 1, url |-> us[k], headers |-> hs[k]]]

Tasks(us, hs) ==
    [k \in Indices(us) |-> [counter |-> k - 1, url |-> us[k], headers |-> hs[k]]]

\* session = session or self.session, evaluated once per batch (the property
\* builds a new ClientSession on every read); every _call of the batch is
\* handed session=session.  Sessions are numbered in order of creation.
SessionOf(k) == 0

\* the server's response to one request
Response(u, h) == [url |-> u, headers |-> h]

\* _call: return counter, await self._call_async(**kwargs_)()
CallResult(t) == <<t.counter, Response(t.url, t.headers)>>

InitFetch ==
    /\ AriaIdle
    /\ CacheIdle
    /\ ExtractIdle
    /\ MediaIdle
    /\ HlsIdle
    /\ DownloadIdle
    /\ UploadIdle
    /\ RegistryIdle
    /\ EarlierIdle
    /\ \E n \in 0..MaxBatch : f_urls \in [1..n -> BatchUrls]
    /\ \E h \in {"None", "dict", "list"} :
          req = [k \in Indices(f_urls) |->
                    [task |-> Tasks(f_urls, HeaderList(h, f_urls))[k],
                     session |-> SessionOf(k), state |-> "created"]]
    /\ f_pc = "start"
    /\ done_queue = <<>>
    /\ yielded = <<>>
    /\ session_closed = FALSE

\* the caller's first __anext__: as_completed(tasks) schedules every task
FetchStart ==
    /\ f_pc = "start"
    /\ req' = [k \in Indices(req) |-> [req[k] EXCEPT !.state = "pending"]]
    /\ f_pc' = "iterating"
    /\ UNCHANGED <<f_urls, done_queue, yielded, session_closed>>
    /\ UNCHANGED notFetch

\* one request of the batch ends, with a response or with an exception; its
\* future joins the queue of as_completed
RequestEnds(i, ok) ==
    /\ i \in Indices(req)
    /\ req[i].state = "pending"
    /\ req' = [req EXCEPT ![i].state = IF ok THEN "ok" ELSE "failed"]
    /\ done_queue' = Append(done_queue, i)
    /\ UNCHANGED <<f_urls, f_pc, yielded, session_closed>>
    /\ UNCHANGED notFetch

\* how many futures the loop over as_completed has awaited so far
Consumed == Len(yielded)

\* for t_ in asyncio.as_completed(tasks): res = await t_; yield res
\* -- the next finished future is awaited: its result is yielded, or its
\* exception is raised in the generator and reaches the caller
GenNext ==
    /\ f_pc = "iterating"
    /\ Consumed < Len(done_queue)
    /\ LET i == done_queue[Consumed + 1] IN
          IF req[i].state = "ok"
          THEN /\ yielded' = Append(yielded, CallResult(req[i].task))
               /\ f_pc' = f_pc
          ELSE /\ yielded' = yielded
               /\ f_pc' = "raised"
    /\ UNCHANGED <<f_urls, req, done_queue, session_closed>>
    /\ UNCHANGED notFetch

\* the loop is exhausted: await session.close()
GenFinish ==
    /\ f_pc = "iterating"
    /\ Consumed = Len(req)
    /\ session_closed' = TRUE
    /\ f_pc' = "done"
    /\ UNCHANGED <<f_urls, req, done_queue, yielded>>
    /\ UNCHANGED notFetch

\* the caller leaves its `async for` after an item it was handed (break,
\* return, an exception of its own): the generator stays suspended at its
\* yield and, when it is finalised, GeneratorExit is raised at that yield;
\* no finally or except clause surrounds the loop, so line 123 is not reached
CallerStops ==
    /\ f_pc = "iterating"
    /\ Consumed >= 1
    /\ f_pc' = "abandoned"
    /\ UNCHANGED <<f_urls, req, done_queue, yielded, session_closed>>
    /\ UNCHANGED notFetch

NextFetch ==
    \/ FetchStart
    \/ \E i \in 1..MaxBatch, ok \in BOOLEAN : RequestEnds(i, ok)
    \/ GenNext
    \/ GenFinish
    \/ CallerStops

SpecFetch == InitFetch /\ [][NextFetch]_vars

\* --------------------------------------------------------------- Downloader
\* _CACHE_ATTRS
CacheAttrs == {"url", "md_hash", "title", "metadata", "src_image", "src_video"}

\* cache_path.is_file(), cache_path = DOWNLOADER_SAVE_PATH / md_hash
is_file(h) == h \in DOMAIN cache

\* save: pickle.dump({x: getattr(self, x) for x in _CACHE_ATTRS}, f)
Pickled(d) == [x \in CacheAttrs |-> d[x]]

\* load: for k, v in pickle.load(f).items(): setattr(self, k, v)
Loaded(d, data) == [x \in DOMAIN d |-> IF x \in DOMAIN data THEN data[x] ELSE d[x]]

\* the Media objects of a page; make_ready has run on each (extract)
MediaList(sz) == [k \in 1..Len(sz) |-> [idx |-> k, size |-> sz[k]]]

SizeLists == UNION {[1..n -> Sizes] : n \in 0..MaxMedia}

\* what one run of an extractor can end with: the page behind a URL is
\* free to differ from one run to the next, in all that is extracted from it
Pages ==
    {[title |-> IF sz = <<>> THEN "t0" ELSE IF sz[1] = 5 THEN "t2" ELSE "t1",
      metadata |-> {<<"views", Len(sz)>>},
      src_image |-> IF Len(sz) > 1 THEN MediaList(<<3>>) ELSE <<>>,
      src_video |-> MediaList(sz)] : sz \in SizeLists}

\* the GET of the page and one HEAD-bearing make_ready per Media
Requests(page) == 1 + Len(page.src_image) + Len(page.src_video)

\* sorted(self.src_video, key=lambda x: x.size): stable, ascending
RECURSIVE Insort(_, _)
Insort(m, s) ==
    IF s = <<>> \/ m.size <= Head(s).size THEN <<m>> \o s
    ELSE <<Head(s)>> \o Insort(m, Tail(s))

RECURSIVE SortedBySize(_)
SortedBySize(vs) ==
    IF vs = <<>> THEN <<>> ELSE Insort(Head(vs), SortedBySize(Tail(vs)))

\* the key comparison raises TypeError when a size is None
SortRaises(vs) == Len(vs) >= 2 /\ \E k \in Indices(vs) : vs[k].size = SizeNone

src_video__unsorted(vs) == vs

src_video__sorted(vs) == SortedBySize(vs)

\* if use_cache and self.cache_path.is_file():
CacheHit_Never(use_cache, h) == FALSE

CacheHit(use_cache, h) == use_cache /\ is_file(h)

\* if use_cache: self.save()
SavesResult_Never(use_cache) == FALSE

SavesResult(use_cache) == use_cache

\* what a caller reads off a Downloader after make_ready
Result(d) == [x \in {"title", "metadata", "src_image", "src_video"} |-> d[x]]

\* the record of a call that ended
Ended(call, d, ok) ==
    [obj |-> call.obj, url |-> d.url, use_cache |-> call.use_cache,
     had_file |-> call.had_file, ok |-> ok, ran |-> call.ran,
     http |-> call.http, result |-> Result(d), ready |-> d.ready]

InitCache ==
    /\ AriaIdle
    /\ FetchIdle
    /\ ExtractIdle
    /\ MediaIdle
    /\ HlsIdle
    /\ DownloadIdle
    /\ UploadIdle
    /\ RegistryIdle
    /\ EarlierIdle
    /\ cache = <<>>
    /\ \E u \in PageUrls : downloaders = <<NewDownloader("a"), NewDownloader(u)>>
    /\ mr = NoCall
    /\ mr_log = <<>>

\* make_ready(use_cache) is called on Downloader o
MakeReady(o, use_cache) ==
    /\ mr.pc = "idle"
    /\ Len(mr_log) < MaxCalls
    /\ LET h == downloaders[o].md_hash IN
          mr' = [NoCall EXCEPT !.obj = o, !.use_cache = use_cache,
                               !.had_file = is_file(h),
                               !.pc = IF CacheHit(use_cache, h) THEN "load" ELSE "extract"]
    /\ UNCHANGED <<cache, downloaders, mr_log>>
    /\ UNCHANGED notCache

\* self.load()
Load ==
    /\ mr.pc = "load"
    /\ downloaders' = [downloaders EXCEPT
                          ![mr.obj] = Loaded(@, cache[downloaders[mr.obj].md_hash])]
    /\ mr' = [mr EXCEPT !.pc = "set_ready"]
    /\ UNCHANGED <<cache, mr_log>>
    /\ UNCHANGED notCache

\* _extractor = get_extractor_cls(self.url)(self.url); await _extractor.extract()
Extract(page) ==
    /\ mr.pc = "extract"
    /\ mr' = [mr EXCEPT !.extractor = page, !.ran = TRUE, !.http = Requests(page),
                        !.pc = "assign"]
    /\ UNCHANGED <<cache, downloaders, mr_log>>
    /\ UNCHANGED notCache

\* get_extractor_cls or extract() raises: make_ready ends with the exception
ExtractRaises ==
    /\ mr.pc = "extract"
    /\ mr_log' = Append(mr_log, Ended([mr EXCEPT !.ran = TRUE, !.http = 1],
                                      downloaders[mr.obj], FALSE))
    /\ mr' = NoCall
    /\ UNCHANGED <<cache, downloaders>>
    /\ UNCHANGED notCache

\* self.title = ...; self.metadata = ...; self.src_image = ...
\* self.src_video = _extractor.src_video__sorted
Assign ==
    /\ mr.pc = "assign"
    /\ LET e == mr.extractor
           d == [downloaders[mr.obj] EXCEPT !.title = e.title, !.metadata = e.metadata,
                                            !.src_image = e.src_image]
       IN IF SortRaises(e.src_video)
          THEN /\ downloaders' = [downloaders EXCEPT ![mr.obj] = d]
               /\ mr_log' = Append(mr_log, Ended(mr, d, FALSE))
               /\ mr' = NoCall
          ELSE /\ downloaders' = [downloaders EXCEPT ![mr.obj] =
                                     [d EXCEPT !.src_video = src_video__sorted(e.src_video)]]
               /\ mr_log' = mr_log
               /\ mr' = [mr EXCEPT !.pc = IF SavesResult(mr.use_cache)
                                          THEN "save" ELSE "set_ready"]
    /\ UNCHANGED cache
    /\ UNCHANGED notCache

\* self.save()
Save ==
    /\ mr.pc = "save"
    /\ LET d == downloaders[mr.obj] IN
          cache' = [h \in DOMAIN cache \cup {d.md_hash} |->
                       IF h = d.md_hash THEN Pickled(d) ELSE cache[h]]
    /\ mr' = [mr EXCEPT !.pc = "set_ready"]
    /\ UNCHANGED <<downloaders, mr_log>>
    /\ UNCHANGED notCache

\* self.ready = True
SetReady ==
    /\ mr.pc = "set_ready"
    /\ downloaders' = [downloaders EXCEPT ![mr.obj].ready = TRUE]
    /\ mr_log' = Append(mr_log, Ended(mr, downloaders'[mr.obj], TRUE))
    /\ mr' = NoCall
    /\ UNCHANGED cache
    /\ UNCHANGED notCache

NextCache ==
    \/ \E o \in {1, 2}, c \in BOOLEAN : MakeReady(o, c)
    \/ Load
    \/ \E page \in Pages : Extract(page)
    \/ ExtractRaises
    \/ Assign
    \/ Save
    \/ SetReady

SpecCache == InitCache /\ [][NextCache]_vars

\* ------------------------------------------------------------ BaseExtractor
SiteClasses == {"XVideosExtractor", "PornEZExtractor", "TubePornClassicExtractor",
                "RedTubeExtractor", "PornHubExtractor"}

\* a method name _extract__<stem>__<digits>
FnName(stem, digits) == [stem |-> stem, digits |-> digits]

\* the stage methods written in the body of each class
ClassBody(c) ==
    LET content == FnName("content", <<1, 0>>)
        title == FnName("title", <<2, 0>>)
        metadata == FnName("metadata", <<3, 0>>)
        image_src == FnName("image_src", <<4, 0>>)
        video_src == FnName("video_src", <<5, 0>>)
        post_process == FnName("post_process", <<1, 0, 0>>)
    IN CASE c = "BaseExtractor" -> {content, title, post_process}
         [] c = "XVideosExtractor" -> {metadata, image_src, video_src}
         [] c = "PornEZExtractor" ->
                {content, title, metadata, image_src, video_src, post_process}
         [] c = "TubePornClassicExtractor" ->
                {content, title, metadata, image_src, video_src, post_process}
         [] c = "RedTubeExtractor" -> {title, metadata, image_src, video_src}
         [] c = "PornHubExtractor" -> {content, title, metadata, image_src, video_src}

\* the stems of the method names, in the alphabetical order of dir()
DirOrder == <<"content", "image_src", "metadata", "post_process", "title", "video_src">>

\* [x for x in dir(self) if x.startswith(prefix)]: the names of the class
\* and of its base, each once, in alphabetical order
Dir(c) ==
    LET names == ClassBody(c) \cup ClassBody("BaseExtractor")
        present == SelectSeq(DirOrder, LAMBDA st : \E f \in names : f.stem = st)
    IN [k \in Indices(present) |-> CHOOSE f \in names : f.stem = present[k]]

\* int(x.rsplit("__", 1)[-1])
RECURSIVE ParseInt(_)
ParseInt(digits) ==
    IF digits = <<>> THEN 0
    ELSE 10 * ParseInt(SubSeq(digits, 1, Len(digits) - 1)) + digits[Len(digits)]

\* sorted(fn_name_list, key=...): ascending in the key, stable
SortedByMarker(names) ==
    LET before(j, i) == \/ ParseInt(names[j].digits) < ParseInt(names[i].digits)
                        \/ /\ ParseInt(names[j].digits) = ParseInt(names[i].digits)
                           /\ j < i
        rank(i) == Cardinality({j \in Indices(names) : before(j, i)}) + 1
    IN [p \in Indices(names) |-> names[CHOOSE i \in Indices(names) : rank(i) = p]]

fn_name_list_Unsorted(c) == Dir(c)

fn_name_list(c) == SortedByMarker(Dir(c))

\* getattr(self, fn_name): the method of the class when its body has one,
\* the inherited one otherwise
Impl(c, f) == IF f \in ClassBody(c) THEN c ELSE "BaseExtractor"

\* the Media objects a stage builds, n of them
NewMedia(kind, n) == [k \in 1..n |-> [kind |-> kind, idx |-> k, ready |-> FALSE, calls |-> 0]]

\* the dict a stage method returns; n is the number of Media it found
Returned(impl, stem, n) ==
    LET base_content == [k \in {"content__raw", "content__bs"} |-> "data"]
        base_post == [k \in {"content__raw", "content__bs"} |-> "None"]
    IN CASE stem = "content" /\ impl = "PornEZExtractor" ->
                [k \in {"content__raw", "content__bs", "content__raw_2", "content__bs_2"}
                    |-> "data"]
         [] stem = "content" /\ impl = "TubePornClassicExtractor" ->
                [k \in {"content__raw", "content__bs", "content__metadata", "video_url"}
                    |-> "data"]
         [] stem = "content" /\ impl = "PornHubExtractor" ->
                [k \in {"content__raw", "content__bs", "flashvars"} |-> "data"]
         [] stem = "content" /\ impl \in {"BaseExtractor"} -> base_content
         [] stem = "title" -> [k \in {"title"} |-> "data"]
         [] stem = "metadata" -> [k \in {"metadata"} |-> "data"]
         [] stem = "image_src" /\ impl = "PornHubExtractor" -> <<>>
         [] stem = "image_src" /\ impl # "PornHubExtractor" ->
                [k \in {"src_image"} |-> NewMedia("image", n)]
         [] stem = "video_src" -> [k \in {"src_video"} |-> NewMedia("video", n)]
         [] stem = "post_process" /\ impl = "PornEZExtractor" ->
                [k \in {"content__raw", "content__bs", "content__raw_2", "content__bs_2"}
                    |-> "None"]
         [] stem = "post_process" /\ impl = "TubePornClassicExtractor" ->
                [k \in {"content__raw", "content__bs", "content__metadata", "video_url"}
                    |-> "None"]
         [] stem = "post_process" /\ impl = "BaseExtractor" -> base_post

\* dict.update
Update(ctx, d) == [k \in DOMAIN ctx \cup DOMAIN d |-> IF k \in DOMAIN d THEN d[k] ELSE ctx[k]]

\* assign_from_context: setattr(self, key, val) for every key of the context
AssignFromContext(attrs, ctx) ==
    [a \in DOMAIN attrs |-> IF a \in DOMAIN ctx THEN ctx[a] ELSE attrs[a]]

\* the Media that extract awaits make_ready on, in order:
\* for s_ in self.src_image: ...; for s_ in self.src_video: ...
ToMakeReady_VideosOnly(attrs) ==
    [k \in Indices(attrs.src_video) |-> <<"src_video", k>>]

ToMakeReady(attrs) ==
    [k \in Indices(attrs.src_image) |-> <<"src_image", k>>]
        \o [k \in Indices(attrs.src_video) |-> <<"src_video", k>>]

InitExtract ==
    /\ AriaIdle
    /\ FetchIdle
    /\ CacheIdle
    /\ MediaIdle
    /\ HlsIdle
    /\ DownloadIdle
    /\ UploadIdle
    /\ RegistryIdle
    /\ EarlierIdle
    /\ ex_cls \in SiteClasses \cup {"BaseExtractor"}
    /\ ex_pc = "stages"
    /\ ex_context = <<>>
    /\ ex_trace = <<>>
    /\ ex_attrs = NewExtractor
    /\ ex_made = 0

\* fn = getattr(self, fn_name); fn() is called and awaited
StageCalled ==
    /\ ex_pc = "stages"
    /\ \A k \in Indices(ex_trace) : ex_trace[k].state = "merged"
    /\ Len(ex_trace) < Len(fn_name_list(ex_cls))
    /\ LET f == fn_name_list(ex_cls)[Len(ex_trace) + 1] IN
          ex_trace' = Append(ex_trace, [fn |-> f, impl |-> Impl(ex_cls, f),
                                        state |-> "running", seen |-> DOMAIN ex_context])
    /\ UNCHANGED <<ex_cls, ex_pc, ex_context, ex_attrs, ex_made>>
    /\ UNCHANGED notExtract

\* self._context.update(await fn())
StageReturns(n) ==
    /\ ex_pc = "stages"
    /\ ex_trace # <<>>
    /\ LET t == ex_trace[Len(ex_trace)] IN
          /\ t.state = "running"
          /\ (n > 0 => t.fn.stem \in {"image_src", "video_src"})
          /\ ex_context' = Update(ex_context, Returned(t.impl, t.fn.stem, n))
          /\ ex_trace' = [ex_trace EXCEPT ![Len(ex_trace)].state = "merged"]
    /\ UNCHANGED <<ex_cls, ex_pc, ex_attrs, ex_made>>
    /\ UNCHANGED notExtract

\* the stage method raises: async_auto_call and extract end with it
StageRaises ==
    /\ ex_pc = "stages"
    /\ ex_trace # <<>>
    /\ ex_trace[Len(ex_trace)].state = "running"
    /\ ex_trace' = [ex_trace EXCEPT ![Len(ex_trace)].state = "raised"]
    /\ ex_pc' = "raised"
    /\ UNCHANGED <<ex_cls, ex_context, ex_attrs, ex_made>>
    /\ UNCHANGED notExtract

\* if assign: self.assign_from_context()
StagesDone ==
    /\ ex_pc = "stages"
    /\ Len(ex_trace) = Len(fn_name_list(ex_cls))
    /\ \A k \in Indices(ex_trace) : ex_trace[k].state = "merged"
    /\ ex_attrs' = AssignFromContext(ex_attrs, ex_context)
    /\ ex_pc' = "media"
    /\ UNCHANGED <<ex_cls, ex_context, ex_trace, ex_made>>
    /\ UNCHANGED notExtract

\* await s_.make_ready() for the next Media: it returns with the Media
\* ready, or it raises and extract ends with the exception
MediaMakeReady(ok) ==
    /\ ex_pc = "media"
    /\ ex_made < Len(ToMakeReady(ex_attrs))
    /\ LET ref == ToMakeReady(ex_attrs)[ex_made + 1] IN
          ex_attrs' = [ex_attrs EXCEPT ![ref[1]][ref[2]].ready = ok,
                                       ![ref[1]][ref[2]].calls = @ + 1]
    /\ ex_made' = IF ok THEN ex_made + 1 ELSE ex_made
    /\ ex_pc' = IF ok THEN ex_pc ELSE "raised"
    /\ UNCHANGED <<ex_cls, ex_context, ex_trace>>
    /\ UNCHANGED notExtract

\* self.ready = True; return self
ExtractReturns ==
    /\ ex_pc = "media"
    /\ ex_made = Len(ToMakeReady(ex_attrs))
    /\ ex_attrs' = [ex_attrs EXCEPT !.ready = TRUE]
    /\ ex_pc' = "done"
    /\ UNCHANGED <<ex_cls, ex_context, ex_trace, ex_made>>
    /\ UNCHANGED notExtract

NextExtract ==
    \/ StageCalled
    \/ \E n \in 0..MaxMedia : StageReturns(n)
    \/ StageRaises
    \/ StagesDone
    \/ \E ok \in BOOLEAN : MediaMakeReady(ok)
    \/ ExtractReturns

SpecExtract == InitExtract /\ [][NextExtract]_vars

\* -------------------------------------------------------------------- Media
\* a HEAD response, and the None that _make_ready__postprocess__100 leaves
\* in its place
HeadResponse(cl) == [is_none |-> FALSE, content_length |-> cl]
NoneHead == [is_none |-> TRUE, content_length |-> 0]

\* how the server answers a HEAD: with a Content-Length, without one, or
\* not at all (the request raises)
Answers == {"length", "no_length", "error"}
ContentLength(r) == IF r = "length" THEN 4 ELSE SizeNone

\* the steps of make_ready, in the order they run: the _make_ready__*
\* methods as async_auto_call sorts them (media.py), the statements of
\* make_ready (types.py)
MakeReadySteps(m) ==
    CASE m.module = "media" /\ m.kind = "GenericMedia" ->
             <<"head__5", "size__10", "extension__20", "postprocess__100">>
      [] m.module = "media" /\ m.kind = "M3U8Media" -> <<"src_list__5", "m3u8_size__10">>
      [] m.module = "types" /\ m.kind = "GenericMedia" -> <<"size">>
      [] m.module = "types" /\ m.kind = "M3U8Media" -> <<"m3u8_data", "m3u8_size">>

\* one step of make_ready on Media m when the server answers r: the Media
\* after it, the HEAD requests it issued, and whether it raised
StepOutcome(m, step, r) ==
    LET out(m2, heads, raises) == [m |-> m2, heads |-> heads, raises |-> raises]
        \* _get_head(): the cached "head" when the key is in the context
        cached == "head" \in DOMAIN m.ctx
        fetched == HeadResponse(ContentLength(r))
        head == IF cached THEN m.ctx["head"] ELSE fetched
        asked == IF cached THEN 0 ELSE 1
        failed == ~cached /\ r = "error"
        ctx(d) == [m EXCEPT !.ctx = Update(m.ctx, d)]
    IN CASE step = "head__5" ->
                IF failed THEN out(m, asked, TRUE)
                ELSE out(ctx([k \in {"head"} |-> head]), asked, FALSE)
         [] step = "size__10" ->
                \* (await self._get_head()).content_length
                IF failed \/ head.is_none THEN out(m, asked, TRUE)
                ELSE out(ctx([k \in {"size"} |-> head.content_length]), asked, FALSE)
         [] step = "extension__20" ->
                \* head_.headers['Content-Type']
                IF failed \/ head.is_none THEN out(m, asked, TRUE)
                ELSE out(ctx([k \in {"extension"} |-> ".mp4"]), asked, FALSE)
         [] step = "postprocess__100" -> out(ctx([k \in {"head"} |-> NoneHead]), 0, FALSE)
         [] step = "src_list__5" ->
                IF r = "error" THEN out(m, 0, TRUE)
                ELSE out(ctx([k \in {"src_list"} |-> "segments"]), 0, FALSE)
         [] step = "m3u8_size__10" ->
                IF r = "error" THEN out(m, 1, TRUE)
                ELSE out(ctx([k \in {"size"} |-> 6]), 1, FALSE)
         [] step = "size" ->
                \* if self.size < 0: ... self.size = req_.content_length
                IF m.size = SizeNone THEN out(m, 0, TRUE)
                ELSE IF m.size >= 0 THEN out(m, 0, FALSE)
                ELSE IF r = "error" THEN out(m, 1, TRUE)
                ELSE out([m EXCEPT !.size = ContentLength(r)], 1, FALSE)
         [] step = "m3u8_data" -> out(m, 0, r = "error")
         [] step = "m3u8_size" ->
                IF m.size >= 0 THEN out(m, 0, FALSE)
                ELSE IF r = "error" THEN out(m, 1, TRUE)
                ELSE out([m EXCEPT !.size = 6], 1, FALSE)

\* DOWNLOAD_DEPENDS_ON_READY (media.py); types.py tests _ready alone
DependsOnReady_Never(m) == FALSE

DependsOnReady(m) == m.module = "types" \/ m.kind = "M3U8Media"

\* the record of a call that ended
EndedCall(call, m, ok) ==
    [op |-> call.op, ok |-> ok, heads |-> call.heads, ran_make_ready |-> call.ran_make_ready,
     size |-> m.size, extension |-> m.extension, ready |-> m.ready]

InitMedia ==
    /\ AriaIdle
    /\ FetchIdle
    /\ CacheIdle
    /\ ExtractIdle
    /\ HlsIdle
    /\ DownloadIdle
    /\ UploadIdle
    /\ RegistryIdle
    /\ EarlierIdle
    /\ \E module \in {"media", "types"}, kind \in {"GenericMedia", "M3U8Media"} :
          md = NewMediaObject(module, kind)
    /\ md_call = NoMediaCall
    /\ md_log = <<>>
    /\ md_submitted = <<>>

\* make_ready() or download() is called on the Media;
\* download: if self.DOWNLOAD_DEPENDS_ON_READY and not self.ready:
\*               await self.make_ready()
MediaCall(op) ==
    /\ md_call.pc = "idle"
    /\ Len(md_log) < MaxOps
    /\ LET skip == op = "download" /\ ~(DependsOnReady(md) /\ ~md.ready) IN
          md_call' = [NoMediaCall EXCEPT !.op = op, !.ran_make_ready = ~skip,
                                         !.pc = IF skip THEN "submit" ELSE "make_ready"]
    /\ UNCHANGED <<md, md_log, md_submitted>>
    /\ UNCHANGED notMedia

\* the next step of make_ready runs; an exception ends the call
MakeReadyStep(r) ==
    /\ md_call.pc = "make_ready"
    /\ md_call.k < Len(MakeReadySteps(md))
    /\ LET o == StepOutcome(md, MakeReadySteps(md)[md_call.k + 1], r)
           c == [md_call EXCEPT !.k = @ + 1, !.heads = @ + o.heads]
       IN /\ md' = o.m
          /\ IF o.raises
             THEN /\ md_log' = Append(md_log, EndedCall(c, o.m, FALSE))
                  /\ md_call' = NoMediaCall
             ELSE /\ md_log' = md_log
                  /\ md_call' = c
    /\ UNCHANGED md_submitted
    /\ UNCHANGED notMedia

\* assign_from_context (media.py); self.ready = True
MakeReadyReturns ==
    /\ md_call.pc = "make_ready"
    /\ md_call.k = Len(MakeReadySteps(md))
    /\ md' = [AssignFromContext(md, md.ctx) EXCEPT !.ready = TRUE]
    /\ IF md_call.op = "make_ready"
       THEN /\ md_log' = Append(md_log, EndedCall(md_call, md', TRUE))
            /\ md_call' = NoMediaCall
       ELSE /\ md_log' = md_log
            /\ md_call' = [md_call EXCEPT !.pc = "submit"]
    /\ UNCHANGED md_submitted
    /\ UNCHANGED notMedia

\* await self._download(...): the download is handed to the daemon
Submit ==
    /\ md_call.pc = "submit"
    /\ md_submitted' = Append(md_submitted, [ready |-> md.ready,
                                             ran_make_ready |-> md_call.ran_make_ready])
    /\ md_log' = Append(md_log, EndedCall(md_call, md, TRUE))
    /\ md_call' = NoMediaCall
    /\ UNCHANGED md
    /\ UNCHANGED notMedia

NextMedia ==
    \/ \E op \in {"make_ready", "download"} : MediaCall(op)
    \/ \E r \in Answers : MakeReadyStep(r)
    \/ MakeReadyReturns
    \/ Submit

SpecMedia == InitMedia /\ [][NextMedia]_vars

\* -------------------------------------------------- M3U8Media: size estimate
\* the manifests explored: n segments whose durations alternate between 2
\* and 1, at a uniform rate of 3 per unit of duration or at a rate that
\* grows along the manifest
Manifests ==
    {[i \in 1..n |-> [duration |-> 1 + (i % 2),
                      length |-> IF uniform THEN 3 * (1 + (i % 2)) ELSE i]] :
        n \in 0..MaxSegments, uniform \in BOOLEAN}

\* samples = random.sample(src_list, SIZE_ESTIMATE_SAMPLE)
\*               if len(src_list) > SIZE_ESTIMATE_SAMPLE else src_list
\* random.sample draws without replacement; of the orders it can return,
\* the ascending and the descending one are explored
samples_Unsampled(n) == {[k \in 1..n |-> k]}

samples(n) ==
    IF n > SIZE_ESTIMATE_SAMPLE
    THEN LET drawn == {S \in SUBSET (1..n) : Cardinality(S) = SIZE_ESTIMATE_SAMPLE}
             asc(S) == [k \in 1..SIZE_ESTIMATE_SAMPLE |->
                           CHOOSE x \in S : Cardinality({y \in S : y <= x}) = k]
             desc(S) == [k \in 1..SIZE_ESTIMATE_SAMPLE |->
                            CHOOSE x \in S : Cardinality({y \in S : y >= x}) = k]
         IN {asc(S) : S \in drawn} \cup {desc(S) : S \in drawn}
    ELSE {[k \in 1..n |-> k]}

\* sum([x.duration for x in src_list])
TotalDuration_OfSamples(src_list, smp) ==
    SumSeq([k \in Indices(smp) |-> src_list[smp[k]].duration])

TotalDuration(src_list, smp) ==
    SumSeq([k \in Indices(src_list) |-> src_list[k].duration])

\* the sum of the rates content_length / duration of the list size, as an
\* exact fraction <<numerator, denominator>>
RECURSIVE RateSum(_, _)
RateSum(size, tags) ==
    IF tags = {} THEN <<0, 1>>
    ELSE LET c == CHOOSE x \in tags : TRUE
             rest == RateSum(size, tags \ {c})
         IN <<rest[1] * size[c].duration + size[c].content_length * rest[2],
              rest[2] * size[c].duration>>

\* int(mean(size) * sum(durations)), in exact arithmetic
Estimate(size, total) ==
    LET s == RateSum(size, DOMAIN size) IN
        (s[1] * total) \div (s[2] * Cardinality(DOMAIN size))

InitHls ==
    /\ AriaIdle
    /\ FetchIdle
    /\ CacheIdle
    /\ ExtractIdle
    /\ MediaIdle
    /\ DownloadIdle
    /\ UploadIdle
    /\ RegistryIdle
    /\ EarlierIdle
    /\ hls_src_list \in Manifests
    /\ hls_pc = "start"
    /\ hls_samples = <<>>
    /\ hls_heads = <<>>
    /\ hls_size = <<>>
    /\ hls_result = SizeUnset

\* the samples are drawn and head_many is handed their URLs: one HEAD
\* request per URL
HeadMany ==
    /\ hls_pc = "start"
    /\ hls_samples' \in samples(Len(hls_src_list))
    /\ hls_heads' = hls_samples'
    /\ hls_pc' = "heads"
    /\ UNCHANGED <<hls_src_list, hls_size, hls_result>>
    /\ UNCHANGED notHls

\* samples[c_]: the sample whose duration divides the content length of
\* the response tagged c, the arrived-th response to arrive being counted
\* from 0
DividedBy_ArrivalPosition(c, arrived) == arrived + 1

DividedBy(c, arrived) == c

\* async for c_, req in cl_.head_many(...):
\*     size.append(req.content_length / samples[c_].duration)
\* -- the response tagged c arrives, in whatever order the requests end
HeadArrives(c) ==
    /\ hls_pc = "heads"
    /\ c \in Indices(hls_heads)
    /\ c \notin DOMAIN hls_size
    /\ hls_size' = [t \in DOMAIN hls_size \cup {c} |->
                       IF t = c
                       THEN [content_length |-> hls_src_list[hls_heads[c]].length,
                             duration |-> hls_src_list[hls_samples[
                                 DividedBy(c, Cardinality(DOMAIN hls_size))]].duration]
                       ELSE hls_size[t]]
    /\ UNCHANGED <<hls_src_list, hls_pc, hls_samples, hls_heads, hls_result>>
    /\ UNCHANGED notHls

\* size = mean(size) * sum([x.duration for x in src_list]); int(size)
\* -- mean of an empty list raises StatisticsError
EstimateReturns ==
    /\ hls_pc = "heads"
    /\ DOMAIN hls_size = Indices(hls_heads)
    /\ IF hls_heads = <<>>
       THEN /\ hls_pc' = "raised"
            /\ hls_result' = hls_result
       ELSE /\ hls_pc' = "done"
            /\ hls_result' = Estimate(hls_size, TotalDuration(hls_src_list, hls_samples))
    /\ UNCHANGED <<hls_src_list, hls_samples, hls_heads, hls_size>>
    /\ UNCHANGED notHls

NextHls ==
    \/ HeadMany
    \/ \E c \in 1..SIZE_ESTIMATE_SAMPLE : HeadArrives(c)
    \/ EstimateReturns

SpecHls == InitHls /\ [][NextHls]_vars

\* ----------------------------------------------------------- Media.download
\* the segment urls of a manifest: two of them end in the same file name
SegmentUrls == {[base |-> "seg", q |-> 1], [base |-> "seg", q |-> 2],
                [base |-> "part", q |-> 1]}

\* the Media objects explored: a GenericMedia has one url, an M3U8Media the
\* absolute_uri of every segment of src_list, in manifest order
DownloadMedia ==
    {[kind |-> "GenericMedia", urls |-> <<u>>] : u \in SegmentUrls}
        \cup {[kind |-> "M3U8Media", urls |-> l] :
                 l \in UNION {[1..n -> SegmentUrls] : n \in 1..MaxParts}}

\* the daemon never overwrites a file of the directory: the n-th job of one
\* file name gets the name with the suffix n
UniqueName(base, files) ==
    [base |-> base,
     n |-> Cardinality({f \in files : f.name.base = base})]

\* asyncio.gather returns the gids in the order of the urls it was given,
\* whatever the order in which the daemon accepted them
GatherResult_AcceptOrder(jobs_, n) == [k \in 1..n |-> k]

GatherResult(jobs_, n) ==
    [k \in 1..n |-> CHOOSE g \in DOMAIN jobs_ : jobs_[g].k = k]

\* the steps of download once every job is complete: the body of the context
\* manager, its finally block, the unlink loop, the exit of TemporaryDirectory
DownloadSteps_RemoveFirst == <<"forceRemove", "files", "write", "unlink", "rmtree">>

DownloadSteps == <<"files", "write", "forceRemove", "unlink", "rmtree">>

\* the step after `step`: an exception leaves the body for the finally block
\* and then the with statement of the scratch directory
After(step, exc) ==
    IF exc # "none" /\ step \in {"await", "files", "write"} THEN "forceRemove"
    ELSE IF exc # "none" /\ step = "forceRemove" THEN "rmtree"
    ELSE IF step = "await" THEN DownloadSteps[1]
    ELSE LET i == CHOOSE j \in DOMAIN DownloadSteps : DownloadSteps[j] = step
         IN  IF i < Len(DownloadSteps) THEN DownloadSteps[i + 1]
             ELSE IF exc = "none" THEN "returned" ELSE "raised"

\* TemporaryDirectory.__exit__ removes the directory with all it holds
Cleanup_KeepsFiles(files) == files

Cleanup(files) == {}

InitDownload ==
    /\ AriaIdle
    /\ FetchIdle
    /\ CacheIdle
    /\ ExtractIdle
    /\ MediaIdle
    /\ HlsIdle
    /\ UploadIdle
    /\ RegistryIdle
    /\ EarlierIdle
    /\ dn_media \in DownloadMedia
    /\ dn_pc = "idle"
    /\ dn_jobs = <<>>
    /\ dn_list = <<>>
    /\ dn_files = {}
    /\ dn_dir = "none"
    /\ dn_save = <<>>
    /\ dn_exc = "none"
    /\ dn_log = <<>>

\* with tempfile.TemporaryDirectory(...) as dir_: a new, empty directory
EnterScratch ==
    /\ dn_pc = "idle"
    /\ dn_dir' = "exists"
    /\ dn_files' = {}
    /\ dn_pc' = "add"
    /\ UNCHANGED <<dn_media, dn_jobs, dn_list, dn_save, dn_exc, dn_log, notDownload>>

\* the daemon accepts addUri for the k-th url and opens the job's file
Accept(k) ==
    /\ dn_pc = "add"
    /\ k \in DOMAIN dn_media.urls
    /\ \A g \in DOMAIN dn_jobs : dn_jobs[g].k # k
    /\ LET name == UniqueName(dn_media.urls[k].base, dn_files)
       IN  /\ dn_jobs' = Append(dn_jobs, [k |-> k, status |-> "active", name |-> name])
           /\ dn_files' = dn_files \cup {[name |-> name, content |-> dn_media.urls[k]]}
    /\ UNCHANGED <<dn_media, dn_pc, dn_list, dn_dir, dn_save, dn_exc, dn_log, notDownload>>

\* one addUri raises: download_many is awaited before the try block, so the
\* exception leaves the context manager without its finally block
AcceptFails ==
    /\ dn_pc = "add"
    /\ \E k \in DOMAIN dn_media.urls : \A g \in DOMAIN dn_jobs : dn_jobs[g].k # k
    /\ dn_exc' = "DownloaderError"
    /\ dn_pc' = "rmtree"
    /\ UNCHANGED <<dn_media, dn_jobs, dn_list, dn_files, dn_dir, dn_save, dn_log, notDownload>>

\* every addUri was answered: download_list is the result of the gather
Gathered ==
    /\ dn_pc = "add"
    /\ Len(dn_jobs) = Len(dn_media.urls)
    /\ dn_list' = GatherResult(dn_jobs, Len(dn_media.urls))
    /\ dn_pc' = "await"
    /\ UNCHANGED <<dn_media, dn_jobs, dn_files, dn_dir, dn_save, dn_exc, dn_log, notDownload>>

\* the daemon finishes a job, with or without an error
JobEnds(g, ok) ==
    /\ dn_pc \in {"add", "await"}
    /\ g \in DOMAIN dn_jobs
    /\ dn_jobs[g].status = "active"
    /\ dn_jobs' = [dn_jobs EXCEPT ![g].status = IF ok THEN "complete" ELSE "error"]
    /\ UNCHANGED <<dn_media, dn_pc, dn_list, dn_files, dn_dir, dn_save, dn_exc, dn_log, notDownload>>

\* await_complete sees an error status and raises DownloaderError
AwaitRaises ==
    /\ dn_pc = "await"
    /\ \E i \in DOMAIN dn_list : dn_jobs[dn_list[i]].status = "error"
    /\ dn_exc' = "DownloaderError"
    /\ dn_pc' = After("await", "DownloaderError")
    /\ UNCHANGED <<dn_media, dn_jobs, dn_list, dn_files, dn_dir, dn_save, dn_log, notDownload>>

\* await_complete sees every job complete and returns; the context manager
\* yields download_list
AwaitReturns ==
    /\ dn_pc = "await"
    /\ \A i \in DOMAIN dn_list : dn_jobs[dn_list[i]].status = "complete"
    /\ dn_log' = Append(dn_log, "complete")
    /\ dn_pc' = After("await", "none")
    /\ UNCHANGED <<dn_media, dn_jobs, dn_list, dn_files, dn_dir, dn_save, dn_exc, notDownload>>

\* status(dl_, ["files"]): the file name of every job, in the order of dl_
Files ==
    /\ dn_pc = "files"
    /\ dn_list' = [i \in DOMAIN dn_list |-> dn_jobs[dn_list[i]].name]
    /\ dn_log' = Append(dn_log, "files")
    /\ dn_pc' = After("files", "none")
    /\ UNCHANGED <<dn_media, dn_jobs, dn_files, dn_dir, dn_save, dn_exc, notDownload>>

\* GenericMedia moves the file to save_path; M3U8Media writes the content of
\* every file of dl_files to save_path, in the order of dl_files
Write ==
    /\ dn_pc = "write"
    /\ dn_save' = [i \in DOMAIN dn_list |->
                      (CHOOSE f \in dn_files : f.name = dn_list[i]).content]
    /\ dn_files' = IF dn_media.kind = "GenericMedia"
                   THEN {f \in dn_files : f.name # dn_list[1]}
                   ELSE dn_files
    /\ dn_log' = Append(dn_log, "write")
    /\ dn_pc' = After("write", "none")
    /\ UNCHANGED <<dn_media, dn_jobs, dn_list, dn_dir, dn_exc, notDownload>>

\* the move or a write fails (OSError): nothing usable is at save_path
WriteFails ==
    /\ dn_pc = "write"
    /\ dn_exc' = "OSError"
    /\ dn_pc' = After("write", "OSError")
    /\ UNCHANGED <<dn_media, dn_jobs, dn_list, dn_files, dn_dir, dn_save, dn_log, notDownload>>

\* finally: forceRemove of every gid of download_list
FinallyRemoves ==
    /\ dn_pc = "forceRemove"
    /\ dn_jobs' = [g \in DOMAIN dn_jobs |-> [dn_jobs[g] EXCEPT !.status = "removed"]]
    /\ dn_log' = Append(dn_log, "forceRemove")
    /\ dn_pc' = After("forceRemove", dn_exc)
    /\ UNCHANGED <<dn_media, dn_list, dn_files, dn_dir, dn_save, dn_exc, notDownload>>

\* for f_ in download_dir.iterdir(): f_.unlink()
Unlink ==
    /\ dn_pc = "unlink"
    /\ dn_files' = {}
    /\ dn_log' = Append(dn_log, "unlink")
    /\ dn_pc' = After("unlink", dn_exc)
    /\ UNCHANGED <<dn_media, dn_jobs, dn_list, dn_dir, dn_save, dn_exc, notDownload>>

\* the with statement of the scratch directory is left
Rmtree ==
    /\ dn_pc = "rmtree"
    /\ dn_files' = Cleanup(dn_files)
    /\ dn_dir' = "deleted"
    /\ dn_log' = Append(dn_log, "rmtree")
    /\ dn_pc' = After("rmtree", dn_exc)
    /\ UNCHANGED <<dn_media, dn_jobs, dn_list, dn_save, dn_exc, notDownload>>

NextDownload ==
    \/ EnterScratch
    \/ \E k \in 1..MaxParts : Accept(k)
    \/ AcceptFails
    \/ Gathered
    \/ \E g \in 1..MaxParts, ok \in BOOLEAN : JobEnds(g, ok)
    \/ AwaitRaises
    \/ AwaitReturns
    \/ Files
    \/ Write
    \/ WriteFails
    \/ FinallyRemoves
    \/ Unlink
    \/ Rmtree

SpecDownload == InitDownload /\ [][NextDownload]_vars

\* ------------------------------------------------------ TeleDriveClient.upload
\* the default headers of an authorized client: DEFAULT_HEADERS and the
\* Authorization header that authorize adds
Authorized == {"Content-Type", "Authorization"}

\* sem = asyncio.Semaphore(Settings.TD_THROTTLING)
Permits_Unbounded == MaxChunks

Permits == TD_THROTTLING

\* the part numbers uploaded: chunk 0 is uploaded whatever total_part is
Parts(total) == 0..((IF total > 1 THEN total ELSE 1) - 1)

InitUpload ==
    /\ AriaIdle
    /\ FetchIdle
    /\ CacheIdle
    /\ ExtractIdle
    /\ MediaIdle
    /\ HlsIdle
    /\ DownloadIdle
    /\ RegistryIdle
    /\ EarlierIdle
    /\ up_total \in 0..MaxChunks
    /\ up_pc = "first"
    /\ up_chunks = [p \in Parts(up_total) |->
                       [pc |-> IF p = 0 THEN "acquire" ELSE "pending", backup |-> {}]]
    /\ up_sem = Permits
    /\ up_headers = Authorized

\* async with sem is entered and _upload_chunk runs up to its request: it
\* keeps client.headers as headers_backup and empties the default headers
Acquire(p) ==
    /\ p \in DOMAIN up_chunks
    /\ up_chunks[p].pc = "acquire"
    /\ up_sem > 0
    /\ up_sem' = up_sem - 1
    /\ up_chunks' = [up_chunks EXCEPT ![p] = [pc |-> "request", backup |-> up_headers]]
    /\ up_headers' = {}
    /\ UNCHANGED <<up_total, up_pc, notUpload>>

\* the request of chunk p is answered: _upload_chunk sets the default headers
\* to a copy of headers_backup and async with sem is left
Responds(p) ==
    /\ p \in DOMAIN up_chunks
    /\ up_chunks[p].pc = "request"
    /\ up_headers' = up_chunks[p].backup
    /\ up_sem' = up_sem + 1
    /\ up_chunks' = [up_chunks EXCEPT ![p].pc = "done"]
    /\ UNCHANGED <<up_total, up_pc, notUpload>>

\* the first chunk is uploaded: a file of one chunk is done, for a longer one
\* all chunks but the last are gathered
FirstReturns ==
    /\ up_pc = "first"
    /\ up_chunks[0].pc = "done"
    /\ up_pc' = IF up_total > 1 THEN "gather" ELSE "returned"
    /\ up_chunks' = [p \in DOMAIN up_chunks |->
                        IF p \in 1..(up_total - 2)
                        THEN [up_chunks[p] EXCEPT !.pc = "acquire"]
                        ELSE up_chunks[p]]
    /\ UNCHANGED <<up_total, up_sem, up_headers, notUpload>>

\* the gather is over: the last chunk is awaited
GatherReturns ==
    /\ up_pc = "gather"
    /\ \A p \in 1..(up_total - 2) : up_chunks[p].pc = "done"
    /\ up_pc' = "last"
    /\ up_chunks' = [up_chunks EXCEPT ![up_total - 1].pc = "acquire"]
    /\ UNCHANGED <<up_total, up_sem, up_headers, notUpload>>

\* the last chunk is uploaded: upload returns file_uid
LastReturns ==
    /\ up_pc = "last"
    /\ up_chunks[up_total - 1].pc = "done"
    /\ up_pc' = "returned"
    /\ UNCHANGED <<up_total, up_chunks, up_sem, up_headers, notUpload>>

NextUpload ==
    \/ \E p \in 0..(MaxChunks - 1) : Acquire(p)
    \/ \E p \in 0..(MaxChunks - 1) : Responds(p)
    \/ FirstReturns
    \/ GatherReturns
    \/ LastReturns

SpecUpload == InitUpload /\ [][NextUpload]_vars

\* ----------------------------------------------------------- get_extractor_cls
\* the labels a host is written with; a host is the sequence of its labels,
\* "www.xvideos.com" being <<"www", "xvideos", "com">>
Labels == {"www", "WWW", "xvideos", "XVideos", "xnxx", "pornez", "tubepornclassic",
           "redtube", "pornhub", "com", "net"}

\* str.lower on a label
Lower(l) ==
    CASE l = "WWW" -> "www"
      [] l = "XVideos" -> "xvideos"
      [] OTHER -> l

\* the urls explored: with a host of up to MaxLabels labels, or without a host
\* (a text without a scheme, a mailto: url)
Urls ==
    {[has_host |-> TRUE, host |-> h] :
        h \in UNION {[1..n -> Labels] : n \in 1..MaxLabels}}
        \cup {[has_host |-> FALSE, host |-> <<>>]}

\* the attribute URLS of each site class
URLS(cls) ==
    CASE cls = "XVideosExtractor" -> {<<"xvideos", "com">>, <<"xnxx", "com">>}
      [] cls = "PornEZExtractor" -> {<<"pornez", "net">>}
      [] cls = "TubePornClassicExtractor" -> {<<"tubepornclassic", "com">>}
      [] cls = "RedTubeExtractor" -> {<<"redtube", "com">>}
      [] cls = "PornHubExtractor" -> {<<"pornhub", "com">>}

SUPPORTED_SITES == UNION {URLS(cls) : cls \in SiteClasses}

\* url.host of a yarl URL made from a text: the host in lower case
UrlHost(u) == [i \in DOMAIN u.host |-> Lower(u.host[i])]

\* if host.startswith("www."): host = host[len("www."):]
StripWww(host) ==
    IF Len(host) > 1 /\ host[1] = "www" THEN Tail(host) ELSE host

\* get_extractor_cls(url): the class returned or the exception raised
get_extractor_cls(u) ==
    IF ~u.has_host
    THEN [kind |-> "AttributeError", cls |-> "", url |-> <<>>, supported |-> {}]
    ELSE LET host == StripWww(UrlHost(u))
             found == {cls \in SiteClasses : host \in URLS(cls)}
         IN  IF found # {}
             THEN [kind |-> "returned", cls |-> CHOOSE cls \in found : TRUE,
                   url |-> <<>>, supported |-> {}]
             ELSE [kind |-> "NotSupportedSite", cls |-> "", url |-> u.host,
                   supported |-> SUPPORTED_SITES]

InitRegistry ==
    /\ AriaIdle
    /\ FetchIdle
    /\ CacheIdle
    /\ ExtractIdle
    /\ MediaIdle
    /\ HlsIdle
    /\ DownloadIdle
    /\ UploadIdle
    /\ EarlierIdle
    /\ rg_url \in Urls
    /\ rg_out = NoOutcome

\* a class lists the host: it is returned
ReturnsExtractor ==
    /\ rg_out = NoOutcome
    /\ get_extractor_cls(rg_url).kind = "returned"
    /\ rg_out' = get_extractor_cls(rg_url)
    /\ UNCHANGED <<rg_url, notRegistry>>

\* no class lists the host: raise NotSupportedSite(url)
RaisesNotSupportedSite ==
    /\ rg_out = NoOutcome
    /\ get_extractor_cls(rg_url).kind = "NotSupportedSite"
    /\ rg_out' = get_extractor_cls(rg_url)
    /\ UNCHANGED <<rg_url, notRegistry>>

\* url.host is None: host.startswith raises AttributeError
RaisesAttributeError ==
    /\ rg_out = NoOutcome
    /\ get_extractor_cls(rg_url).kind = "AttributeError"
    /\ rg_out' = get_extractor_cls(rg_url)
    /\ UNCHANGED <<rg_url, notRegistry>>

NextRegistry ==
    \/ ReturnsExtractor
    \/ RaisesNotSupportedSite
    \/ RaisesAttributeError

SpecRegistry == InitRegistry /\ [][NextRegistry]_vars

\* ------------------------------------------ Download/http.py: with_download_many
InitEarlier ==
    /\ AriaIdle
    /\ FetchIdle
    /\ CacheIdle
    /\ ExtractIdle
    /\ MediaIdle
    /\ HlsIdle
    /\ DownloadIdle
    /\ UploadIdle
    /\ RegistryIdle
    /\ od_urls \in 1..MaxParts
    /\ od_pc = "add"
    /\ od_jobs = <<>>
    /\ od_removed = {}
    /\ od_polls = 0

\* _add_downloads: session.add_uris for the next url
EarlierAddUri ==
    /\ od_pc = "add"
    /\ od_jobs' = Append(od_jobs, "active")
    /\ od_pc' = IF Len(od_jobs) + 1 = od_urls THEN "await" ELSE "add"
    /\ UNCHANGED <<od_urls, od_removed, od_polls, notEarlier>>

\* the daemon finishes a job, with or without an error
EarlierJobEnds(g, ok) ==
    /\ od_pc \in {"add", "await"}
    /\ g \in DOMAIN od_jobs
    /\ od_jobs[g] = "active"
    /\ od_jobs' = [od_jobs EXCEPT ![g] = IF ok THEN "complete" ELSE "error"]
    /\ UNCHANGED <<od_urls, od_pc, od_removed, od_polls, notEarlier>>

\* _await_complete sees an error code: DownloadError leaves download_many,
\* which with_download_many awaits before its try block
EarlierAwaitRaises ==
    /\ od_pc = "await"
    /\ \E g \in DOMAIN od_jobs : od_jobs[g] = "error"
    /\ od_pc' = "raised"
    /\ UNCHANGED <<od_urls, od_jobs, od_removed, od_polls, notEarlier>>

\* _await_complete sees no error and a job that is not complete: it calls
\* update_fn, sleeps and polls again
EarlierPolls ==
    /\ od_pc = "await"
    /\ \A g \in DOMAIN od_jobs : od_jobs[g] # "error"
    /\ \E g \in DOMAIN od_jobs : od_jobs[g] # "complete"
    /\ od_polls < MaxPolls
    /\ od_polls' = od_polls + 1
    /\ UNCHANGED <<od_urls, od_pc, od_jobs, od_removed, notEarlier>>

\* _await_complete sees every job complete: the downloads are yielded
EarlierAwaitReturns ==
    /\ od_pc = "await"
    /\ \A g \in DOMAIN od_jobs : od_jobs[g] = "complete"
    /\ od_pc' = "body"
    /\ UNCHANGED <<od_urls, od_jobs, od_removed, od_polls, notEarlier>>

\* the body of the async with returns or raises: finally session.remove(downloads)
EarlierBodyEnds(ok) ==
    /\ od_pc = "body"
    /\ od_removed' = DOMAIN od_jobs
    /\ od_pc' = IF ok THEN "returned" ELSE "raised"
    /\ UNCHANGED <<od_urls, od_jobs, od_polls, notEarlier>>

NextEarlier ==
    \/ EarlierAddUri
    \/ \E g \in 1..MaxParts, ok \in BOOLEAN : EarlierJobEnds(g, ok)
    \/ EarlierPolls
    \/ EarlierAwaitRaises
    \/ EarlierAwaitReturns
    \/ \E ok \in BOOLEAN : EarlierBodyEnds(ok)

SpecEarlier == InitEarlier /\ [][NextEarlier]_vars

\* ------------------------------------------------- claims on Aria2Client
Gids == {download_list[k] : k \in Indices(download_list)}

\* the call went past download_many and left its try block in one of the
\* ways a caller can observe
TryExits == {"ok", "BlockError", "DownloaderError", "Cancelled", "CallbackError"}

HasError(s) == \E k \in Indices(s) : s[k] = "error"
AllComplete(s) == \A k \in Indices(s) : s[k] = "complete"

\* C1: however with_download_many / with_download ends once the jobs were
\* submitted (the block finishes, the block raises, await_complete raises
\* DownloaderError, the task is cancelled while polling), a forceRemove was
\* issued to the daemon for every submitted gid before control is given back.
C1_ForceRemoveOnEveryExit ==
    (pc = "done" /\ outcome \in TryExits)
        => \A g \in Gids : forceRemoved[g] >= 1

C1_Witness ==
    /\ pc = "done"
    /\ outcome = "Cancelled"
    /\ Len(download_list) = 2
    /\ polls >= 1
    /\ \A g \in Gids : forceRemoved[g] >= 1

\* C2: when a poll finds a job in error, the call fails with DownloaderError
\* carrying the errorCode and errorMessage the daemon reports for that job
\* (the first one in error), and forceRemove is issued exactly once per gid.
C2_ErrorCarriesJobDetail ==
    (pc = "done" /\ polls > 0 /\ HasError(stat) /\ outcome # "Cancelled")
        => /\ outcome = "DownloaderError"
           /\ \E k \in Indices(stat) :
                 /\ stat[k] = "error"
                 /\ \A m \in 1..(k - 1) : stat[m] # "error"
                 /\ jobs[download_list[k]].status = "error"
                 /\ raised.error_code = jobs[download_list[k]].errorCode
                 /\ raised.error_msg = jobs[download_list[k]].errorMessage
           /\ \A g \in Gids : forceRemoved[g] = 1

C2_Witness ==
    /\ pc = "done"
    /\ outcome = "DownloaderError"
    /\ Len(stat) = 2
    /\ stat[1] # "error"
    /\ stat[2] = "error"
    /\ raised.error_msg = jobs[download_list[2]].errorMessage
    /\ \A g \in Gids : forceRemoved[g] = 1

\* C3: when with_download_many returns or raises, every job the daemon
\* created for it has been force-removed, also when adding one URL of the
\* batch fails after other URLs were already added.
C3_NoJobOutlivesCall ==
    (pc = "done" /\ outcome # "AddCancelled")
        => \A g \in DOMAIN jobs : forceRemoved[g] >= 1

\* C4: await_complete returns normally only if every gid reported "complete"
\* in its last poll; it never returns while a job is in another state.
C4_ReturnsOnlyWhenAllComplete ==
    awaitExit = "returned"
        => /\ Len(stat) = Len(download_list)
           /\ \A k \in Indices(download_list) :
                 /\ stat[k] = "complete"
                 /\ jobs[download_list[k]].status = "complete"

C4_Witness ==
    /\ awaitExit = "returned"
    /\ Len(download_list) = 2
    /\ polls = 2
    /\ pc = "block"

\* C5: a poll in which some job reports "error" is the last one: without the
\* callback, a sleep or another poll, await_complete fetches the error and
\* raises DownloaderError, whatever the state of the sibling jobs.
C5_ErrorRaisedInSamePoll ==
    (polls > 0 /\ HasError(stat))
        => /\ pc \in {"errfetch", "finally", "done"}
           /\ awaitExit \in {"none", "DownloaderError", "Cancelled"}
           /\ (awaitExit = "none") = (pc = "errfetch")
           /\ sleeps = polls - 1
           /\ cbCalls <= polls - 1

C5_Witness ==
    /\ pc = "done"
    /\ awaitExit = "DownloaderError"
    /\ polls = 2
    /\ \E k \in Indices(stat) : stat[k] = "active"

\* C6: while no job reports "error" and not every job reports "complete",
\* await_complete does not end on its own account, with no limit on the
\* number of polls: it goes on polling and sleeping, and ends only by the
\* cancellation of the task (or by an exception thrown out of the caller's
\* own progress function, see C8).
C6_NoExitWhileIncomplete ==
    (polls > 0 /\ ~HasError(stat) /\ ~AllComplete(stat))
        => /\ awaitExit \in {"none", "Cancelled", "CallbackError"}
           /\ awaitExit = "none" => pc \in {"callback", "sleep", "poll"}
           /\ pc = "poll" => sleeps = polls

C6_Witness ==
    /\ polls = MaxPolls
    /\ sleeps = MaxPolls
    /\ pc = "poll"
    /\ awaitExit = "none"
    /\ ~AllComplete(stat)

\* C7 (as stated): with a progress callback set, it is invoked once on every
\* poll of await_complete, from the first to the last.
C7_CallbackOnEveryPoll ==
    (update_fn /\ Len(download_list) > 0 /\ awaitExit = "returned")
        => cbCalls = polls

\* what the daemon reports at the moment of the callback's own status query
CompleteJobs == {k \in Indices(download_list) : jobs[download_list[k]].status = "complete"}
TotalLengthSum == SumSeq([k \in Indices(download_list) |-> jobs[download_list[k]].totalLength])
CompletedLengthSum == SumSeq([k \in Indices(download_list) |-> jobs[download_list[k]].completedLength])

C7_Step ==
    /\ (pc = "poll" /\ polls' = polls + 1)
          => ((pc' = "callback") <=> (update_fn /\ ~HasError(stat') /\ ~AllComplete(stat')))
    /\ (pc = "callback" /\ pc' # "callback" /\ awaitExit' # "Cancelled")
          => cbCalls' = cbCalls + 1
    /\ (cbCalls' # cbCalls)
          => /\ pc = "callback"
             /\ cbCalls' = cbCalls + 1
             /\ cbArgs' = IF cb_use_length
                          THEN <<TotalLengthSum, CompletedLengthSum>>
                          ELSE <<Len(download_list), Cardinality(CompleteJobs)>>
    /\ (cbCalls' = cbCalls) => cbArgs' = cbArgs

\* C7 (amended): with a progress callback set, it is invoked once on every
\* poll that finds neither a job in error nor all jobs complete (so not on
\* the last poll of a call that returns or raises DownloaderError), with
\* (total, completed) = (number of jobs, number of complete jobs) in
\* count-based mode and (sum of totalLength, sum of completedLength) in
\* length-based mode.
C7_CallbackOnEveryPendingPoll == [][C7_Step]_vars

C7_Witness ==
    /\ update_fn
    /\ cb_use_length
    /\ awaitExit = "returned"
    /\ polls = 2
    /\ cbCalls = 1
    /\ cbArgs[1] > 0
    /\ Len(download_list) = 2

\* C8: an exception raised by the progress callback does not end
\* await_complete.
C8_CallbackErrorNotFatal == awaitExit # "CallbackError"

\* ------------------------------------------------ claims on AioHttpClient
YieldedIndices == {yielded[k][1] : k \in Indices(yielded)}

\* C9: get_many / head_many over N URLs yields exactly N (index, response)
\* pairs, each index 0..N-1 once and paired with the response to the URL at
\* that index, in every completion order of the requests.
C9_EachIndexOnce ==
    /\ \A k \in Indices(yielded) :
          /\ yielded[k][1] \in 0..(Len(f_urls) - 1)
          /\ yielded[k][2].url = f_urls[yielded[k][1] + 1]
          /\ yielded[k][2] = Response(req[yielded[k][1] + 1].task.url,
                                      req[yielded[k][1] + 1].task.headers)
    /\ Cardinality(YieldedIndices) = Len(yielded)
    /\ f_pc = "done"
          => /\ Len(yielded) = Len(f_urls)
             /\ YieldedIndices = 0..(Len(f_urls) - 1)

C9_Witness ==
    /\ f_pc = "done"
    /\ Len(f_urls) = 3
    /\ f_urls[1] # f_urls[3]
    /\ yielded[1][1] = 2
    /\ yielded[2][1] = 0
    /\ yielded[3][1] = 1

\* C10: the failure of one request of a batch does not stop the others: the
\* tagged result of every sibling request is still delivered to the caller.
C10_SiblingsStillDelivered ==
    f_pc = "raised"
        => \A i \in Indices(req) :
              req[i].state # "failed" => (i - 1) \in YieldedIndices

InFlight(i) == req[i].state = "pending"
Completed(i) == req[i].state \in {"ok", "failed"}

\* C11: all requests of one get_many / head_many batch use the same pooled
\* session; that session is not closed while a request of the batch is in
\* flight; and once every request of the batch has completed and the batch
\* is over - the loop was exhausted, a request's failure was raised, or the
\* caller stopped consuming - the session is closed
C11_SessionClosedAfterBatch ==
    /\ \A i, j \in Indices(req) : req[i].session = req[j].session
    /\ session_closed => \A i \in Indices(req) : ~InFlight(i)
    /\ (/\ f_pc \in {"done", "raised", "abandoned"}
        /\ \A i \in Indices(req) : Completed(i))
       => session_closed

\* ------------------------------------------------- claims on the Downloader
LastCall == mr_log[Len(mr_log)]

\* calls i < j of the log are successive calls for one URL
Successive(i, j) ==
    /\ i < j
    /\ mr_log[i].url = mr_log[j].url
    /\ \A k \in (i + 1)..(j - 1) : mr_log[k].url # mr_log[i].url

\* C12: of two successive make_ready(use_cache=True) calls for one URL, on
\* the same or on two Downloader objects, the first of which completes, the
\* second does not run the extractor and issues no HTTP request, and it
\* ends with title, metadata, src_image and src_video equal to those of the
\* first; the extractor ran exactly once over the two calls when the first
\* found no cache entry
C12_SecondCallReadsCache ==
    \A i, j \in Indices(mr_log) :
        (/\ Successive(i, j)
         /\ mr_log[i].use_cache /\ mr_log[j].use_cache
         /\ mr_log[i].ok)
        => /\ mr_log[j].ok
           /\ ~mr_log[j].ran
           /\ mr_log[j].http = 0
           /\ mr_log[j].result = mr_log[i].result
           /\ (~mr_log[i].had_file => mr_log[i].ran)

C12_Witness ==
    /\ Len(mr_log) >= 2
    /\ mr_log[1].url = mr_log[2].url
    /\ mr_log[1].obj # mr_log[2].obj
    /\ mr_log[1].use_cache /\ mr_log[2].use_cache
    /\ mr_log[1].ok /\ mr_log[2].ok
    /\ mr_log[1].ran /\ mr_log[1].http = 4
    /\ mr_log[2].result.title = "t2"

\* the cache entry of the hash holds what the call just returned
Persisted(e) ==
    /\ is_file(Hash(e.url))
    /\ Result(cache[Hash(e.url)]) = e.result

IsSortedBySize(vs) == \A k \in 1..(Len(vs) - 1) : vs[k].size <= vs[k + 1].size

\* C14: once make_ready has completed, from an extraction or from the
\* cache, src_video is in ascending order of size: no item is larger than
\* the item after it
C14_SrcVideoSorted ==
    /\ \A o \in Indices(downloaders) :
          downloaders[o].ready => IsSortedBySize(downloaders[o].src_video)
    /\ \A i \in Indices(mr_log) :
          mr_log[i].ok => IsSortedBySize(mr_log[i].result.src_video)

C14_Witness ==
    \E i \in Indices(mr_log) :
        /\ mr_log[i].ok /\ ~mr_log[i].ran
        /\ Len(mr_log[i].result.src_video) = 2
        /\ mr_log[i].result.src_video[1].idx = 2
        /\ mr_log[i].result.src_video[1].size < mr_log[i].result.src_video[2].size

\* ---------------------------------------------- claims on BaseExtractor
Marker(k) == ParseInt(ex_trace[k].fn.digits)

\* C15: extract runs the stage methods one at a time, in ascending order of
\* their numeric marker and each once; a stage is called only after the keys
\* returned by the stages before it were merged into the context; an
\* overridden stage is the subclass's method, run at the position of the
\* stage it replaces; and when the stages are over every stage has run
C15_StagesInOrder ==
    /\ Cardinality({k \in Indices(ex_trace) : ex_trace[k].state = "running"}) <= 1
    /\ \A k \in Indices(ex_trace) :
          /\ ex_trace[k].state = "running" => k = Len(ex_trace)
          /\ \A j \in 1..(k - 1) :
                /\ Marker(j) < Marker(k)
                /\ ex_trace[j].fn # ex_trace[k].fn
                /\ DOMAIN Returned(ex_trace[j].impl, ex_trace[j].fn.stem, 0)
                      \subseteq ex_trace[k].seen
          /\ ex_trace[k].impl = Impl(ex_cls, ex_trace[k].fn)
          /\ k = Cardinality({f \in ClassBody(ex_cls) \cup ClassBody("BaseExtractor") :
                                 ParseInt(f.digits) <= Marker(k)})
    /\ ex_pc \in {"media", "done"} =>
          {ex_trace[k].fn : k \in Indices(ex_trace)}
              = ClassBody(ex_cls) \cup ClassBody("BaseExtractor")

C15_Witness ==
    /\ ex_cls = "PornHubExtractor"
    /\ ex_pc = "done"
    /\ Len(ex_trace) = 6
    /\ ex_trace[6].fn.stem = "post_process" /\ ex_trace[6].impl = "BaseExtractor"
    /\ ex_trace[1].fn.stem = "content" /\ ex_trace[1].impl = "PornHubExtractor"
    /\ "flashvars" \in ex_trace[2].seen

AllMedia(attrs) == {attrs.src_image[k] : k \in Indices(attrs.src_image)}
                       \cup {attrs.src_video[k] : k \in Indices(attrs.src_video)}

\* C16: when extract has returned - and so whenever the extractor's ready
\* flag is true - make_ready was run on every Media of src_image and of
\* src_video, and each of them is ready
C16_AllMediaReady ==
    (ex_pc = "done" \/ ex_attrs.ready) =>
        /\ ex_attrs.ready
        /\ \A m \in AllMedia(ex_attrs) : m.ready /\ m.calls >= 1

C16_Witness ==
    /\ ex_attrs.ready
    /\ Len(ex_attrs.src_image) = 1
    /\ Len(ex_attrs.src_video) = 2
    /\ ex_made = 3

\* ------------------------------------------------------ claims on the Media
\* C17 as stated: download on a Media that is not ready runs make_ready
\* before anything is submitted, for GenericMedia and M3U8Media alike: no
\* download is submitted for a Media on which make_ready has not run
C17_NoSubmitBeforeReady ==
    \A k \in Indices(md_submitted) : md_submitted[k].ready

\* C17, amended: that holds for M3U8Media and for both classes of
\* Downloader/types.py; GenericMedia of Downloader/media.py has
\* DOWNLOAD_DEPENDS_ON_READY = False, and its download never runs make_ready
C17_NoSubmitBeforeReadyWhenDepends ==
    \A k \in Indices(md_submitted) :
        /\ (md.module = "types" \/ md.kind = "M3U8Media") => md_submitted[k].ready
        /\ (md.module = "media" /\ md.kind = "GenericMedia")
              => ~md_submitted[k].ran_make_ready

C17_Witness ==
    /\ md.module = "media" /\ md.kind = "M3U8Media"
    /\ Len(md_submitted) = 1
    /\ md_submitted[1].ran_make_ready /\ md_submitted[1].ready
    /\ md_log[1].op = "download"

\* C18: a second GenericMedia.make_ready after a first that succeeded also
\* succeeds, leaves size and extension as the first call set them, and
\* issues no HEAD request when the size is already known (size != -1)
C18_MakeReadyIdempotent ==
    md.kind = "GenericMedia" =>
        \A i, j \in Indices(md_log) :
            (/\ i < j
             /\ md_log[i].op = "make_ready" /\ md_log[j].op = "make_ready"
             /\ md_log[i].ok)
            => /\ md_log[j].ok
               /\ md_log[j].size = md_log[i].size
               /\ md_log[j].extension = md_log[i].extension
               /\ (md_log[i].size # SizeUnset => md_log[j].heads = 0)

\* ----------------------------------------------- claims on the size estimate
Min(a, b) == IF a <= b THEN a ELSE b

\* C19: for a manifest of n segments the size estimate issues exactly
\* min(n, 10) HEAD requests, each for a different segment of the manifest:
\* all n segments when n <= 10, and 10 different ones when n > 10
C19_HeadsPerEstimate ==
    hls_pc \in {"heads", "done", "raised"} =>
        LET n == Len(hls_src_list) IN
        /\ Len(hls_heads) = Min(n, 10)
        /\ \A c \in Indices(hls_heads) : hls_heads[c] \in 1..n
        /\ \A c, d \in Indices(hls_heads) : c # d => hls_heads[c] # hls_heads[d]
        /\ n <= 10 => {hls_heads[c] : c \in Indices(hls_heads)} = 1..n

C19_Witness ==
    /\ hls_pc = "done"
    /\ Len(hls_src_list) = 11
    /\ Len(hls_heads) = 10
    /\ hls_heads[1] = 11
    /\ \A c \in Indices(hls_heads) : hls_heads[c] # 4

\* every segment's content length is r times its duration
UniformRate(src_list, r) ==
    \A i \in Indices(src_list) : src_list[i].length = r * src_list[i].duration

\* C20: for a manifest of uniform bitrate r the estimated size is r times
\* the sum of all segment durations, whichever segments were sampled
C20_UniformRateEstimate ==
    (hls_pc = "done" /\ UniformRate(hls_src_list, 3)) =>
        hls_result = 3 * SumSeq([i \in Indices(hls_src_list) |-> hls_src_list[i].duration])

C20_Witness ==
    /\ hls_pc = "done"
    /\ Len(hls_src_list) = 11
    /\ UniformRate(hls_src_list, 3)
    /\ hls_result = 51
    /\ \A c \in Indices(hls_samples) : hls_samples[c] # 2

\* the rate of the sample at index tag c
RateOfSample(c) ==
    [content_length |-> hls_src_list[hls_samples[c]].length,
     duration |-> hls_src_list[hls_samples[c]].duration]

\* C21: in whatever order the sampled HEAD responses arrive, each response's
\* content length is divided by the duration of the sample at the response's
\* index tag, and the estimate returned is the one the samples determine
C21_EstimateIgnoresArrivalOrder ==
    /\ \A c \in DOMAIN hls_size : hls_size[c] = RateOfSample(c)
    /\ hls_pc = "done" =>
          hls_result = Estimate([c \in Indices(hls_samples) |-> RateOfSample(c)],
                                SumSeq([i \in Indices(hls_src_list) |->
                                           hls_src_list[i].duration]))

\* the response tagged 2 is the first to arrive, and the samples tagged 1
\* and 2 differ in duration
C21_Witness ==
    /\ hls_pc = "heads"
    /\ DOMAIN hls_size = {2}
    /\ hls_size[2].duration = 1
    /\ hls_src_list[hls_samples[1]].duration = 2
    /\ ~UniformRate(hls_src_list, 3)

\* ------------------------------------------------ claims on Media.download
\* C22: after a successful M3U8Media.download the content at save_path is the
\* content of the segments in manifest order, one copy of each, whatever the
\* order in which the daemon accepted or finished the jobs.
C22_SavedInManifestOrder ==
    (dn_pc = "returned" /\ dn_media.kind = "M3U8Media") =>
        /\ Len(dn_save) = Len(dn_media.urls)
        /\ \A k \in DOMAIN dn_media.urls : dn_save[k] = dn_media.urls[k]

C22_Witness ==
    /\ dn_pc = "returned"
    /\ dn_media.kind = "M3U8Media"
    /\ Len(dn_media.urls) = 3
    /\ dn_media.urls[1].base = dn_media.urls[3].base
    /\ dn_media.urls[1] # dn_media.urls[3]
    /\ dn_jobs[1].k = 3
    /\ dn_jobs[3].k = 1
    /\ dn_jobs[3].name.n = 1

\* C23: Media.download works in a fresh scratch directory, and when it has
\* returned or raised (DownloaderError while submitting or awaiting, a failure
\* while moving or concatenating) the directory and every file in it are gone.
C23_ScratchDeleted ==
    /\ (dn_pc = "add" /\ dn_jobs = <<>>) => (dn_dir = "exists" /\ dn_files = {})
    /\ dn_pc \in {"returned", "raised"} => (dn_dir = "deleted" /\ dn_files = {})

C23_Witness ==
    /\ dn_pc = "raised"
    /\ dn_exc = "OSError"
    /\ dn_media.kind = "M3U8Media"
    /\ Len(dn_jobs) = 2
    /\ dn_dir = "deleted"

\* the place of a step in the order the claim states
StepRank(e) ==
    CASE e = "complete" -> 1
      [] e = "files" -> 2
      [] e = "write" -> 3
      [] e = "forceRemove" -> 4
      [] e = "unlink" -> 5
      [] e = "rmtree" -> 6

\* C29: in Media.download the daemon reports every job complete, then the
\* file is moved or the segments are concatenated into save_path, then the
\* jobs are force-removed, and only then is the scratch directory deleted;
\* the file list of a job is never queried after its force-removal.
C29_StepsInOrder ==
    /\ \A i, j \in DOMAIN dn_log : i < j => StepRank(dn_log[i]) < StepRank(dn_log[j])
    /\ \A i, j \in DOMAIN dn_log :
          (dn_log[i] = "forceRemove" /\ dn_log[j] = "files") => j < i
    /\ dn_pc = "returned" =>
          dn_log = <<"complete", "files", "write", "forceRemove", "unlink", "rmtree">>

C29_Witness ==
    /\ dn_pc = "returned"
    /\ dn_media.kind = "GenericMedia"
    /\ dn_save = dn_media.urls
    /\ dn_jobs[1].status = "removed"
    /\ Len(dn_log) = 6

\* ------------------------------------------- claims on TeleDriveClient.upload
\* the chunk uploads whose request is in flight
ChunksInFlight == {p \in DOMAIN up_chunks : up_chunks[p].pc = "request"}

\* C25: during TeleDriveClient.upload at no moment are more than TD_THROTTLING
\* chunk uploads in flight at the same time.
C25_AtMostThrottlingInFlight ==
    Cardinality(ChunksInFlight) <= TD_THROTTLING

C25_Witness ==
    /\ up_pc = "gather"
    /\ Cardinality(ChunksInFlight) = TD_THROTTLING
    /\ \E p \in DOMAIN up_chunks : up_chunks[p].pc = "acquire"
    /\ up_sem = 0

\* C30: after TeleDriveClient.upload has finished, the default headers of the
\* client session (Authorization included) are what they were before the
\* upload, for every interleaving of the chunk uploads.
C30_HeadersRestored ==
    up_pc = "returned" => up_headers = Authorized

\* ------------------------------------------------ claims on the site registry
\* C24: for every url get_extractor_cls either returns the one extractor type
\* whose host list contains the url's host with a leading "www." removed
\* (whatever the letter case of the host), or raises NotSupportedSite carrying
\* that url and the set of supported hosts; it has no other outcome.
C24_ReturnsOrNotSupportedSite ==
    rg_out # NoOutcome =>
        \/ /\ rg_out.kind = "returned"
           /\ \A cls \in SiteClasses :
                 StripWww(UrlHost(rg_url)) \in URLS(cls) <=> cls = rg_out.cls
        \/ /\ rg_out.kind = "NotSupportedSite"
           /\ rg_out.url = rg_url.host
           /\ rg_out.supported = SUPPORTED_SITES
           /\ StripWww(UrlHost(rg_url)) \notin SUPPORTED_SITES

\* --------------------------------------------- claims on the earlier client
\* C26: with_download and with_download_many of Download/http.py remove the
\* submitted jobs from the daemon on the failure path as on the success path:
\* when a job reports an error and DownloadError is raised while awaiting
\* completion, session.remove is still called for the submitted jobs.
C26_RemovedOnEveryPath ==
    od_pc \in {"returned", "raised"} => od_removed = DOMAIN od_jobs

\* ------------------------------------- claims on a failing Downloader.make_ready
\* the calls of make_ready on Downloader o that have ended
EndedOn(o) == {i \in DOMAIN mr_log : mr_log[i].obj = o}

\* C27: if the extractor raises during Downloader.make_ready (unsupported host,
\* a failing stage, a failing Media.make_ready), no cache entry is created or
\* changed for the hash of the url, the ready flag of the Downloader stays
\* false, and title, metadata, src_image and src_video keep their initial
\* empty values.
C27_ExtractorRaiseLeavesNoTrace ==
    [][ExtractRaises =>
          /\ cache' = cache
          /\ is_file(downloaders[mr.obj].md_hash) = mr.had_file
          /\ EndedOn(mr.obj) = {} =>
                /\ downloaders'[mr.obj].ready = FALSE
                /\ downloaders'[mr.obj].title = ""
                /\ downloaders'[mr.obj].metadata = {}
                /\ downloaders'[mr.obj].src_image = <<>>
                /\ downloaders'[mr.obj].src_video = <<>>]_vars

C27_Witness ==
    /\ Len(mr_log) = 1
    /\ mr_log[1].ok = FALSE
    /\ mr_log[1].use_cache
    /\ mr_log[1].ran
    /\ mr_log[1].ready = FALSE
    /\ mr_log[1].result.title = ""
    /\ mr_log[1].result.src_video = <<>>
    /\ cache = <<>>

\* ------------------------------------------------ claims on the size of a Media
\* C28: whenever the ready flag of a Media is true its size is a resolved
\* byte count, an integer >= 0, never the unknown marker -1 nor a missing
\* value, for every HEAD response the probe can receive (one without a
\* content length included) and for both Media variants.
C28_ReadyHasResolvedSize ==
    md.ready => md.size >= 0

====
